---- MODULE Spec2Model ----
(***************************************************************************)
(* Model of the chat-completion gateway (valaises/llm-tools-server):       *)
(*   - core/routers/router_auth.py    bearer-token check and auth cache    *)
(*   - core/chat.py                   history windowing and pruning        *)
(*   - mcpl/wrappers.py               fan-out to the capability servers    *)
(*   - core/routers/router_chat_completions.py   the request pipeline      *)
(* Six specifications share the variables:                                *)
(*   Spec        concurrent chat-completion requests and the auth cache    *)
(*   SpecChat    limit_messages / remove_trail_tool_calls on conversations *)
(*   SpecFanout  one gather over the active capability servers             *)
(*   SpecPipe    one request from authentication to the end of the answer  *)
(*   SpecTools   one call of execute_tools_if_needed                       *)
(*   SpecMcpl    the mcpl_servers table and the requests that fan out      *)
(***************************************************************************)
EXTENDS Integers, Sequences, FiniteSets, TLC

VARIABLES
    \* ---- core/routers/router_auth.py, router_chat_completions.py
    cache,          \* App.auth_cache: dict api_key -> CacheAuthItem
    now,            \* time.time(), in whole seconds
    req,            \* per request: position in _chat_completions and its locals
    \* ---- core/chat.py
    post_messages,  \* the conversation as it was handed to the first call
    messages,       \* the caller's name `messages`: the list the next call is made on
    arg_after,      \* the list object given to limit_messages, as the call left it
    tok_limit,      \* MESSAGES_TOK_LIMIT
    chat_calls,     \* the calls made so far, in order
    prev_messages,  \* the list as it was before the last call
    \* ---- mcpl/wrappers.py
    fan_op,         \* which fan-out: "tools", "tools-props", "tools-execute"
    servers,        \* the servers argument (already filtered to active ones)
    task,           \* per server index: position of its fetch_from_server task
    results,        \* per server index: the value its task returned
    finished,       \* server indexes in the order their tasks completed
    aggregate,      \* what the fan-out returned, once gather has returned
    \* ---- core/tools/tools.py, router_chat_completions.py (one request in detail)
    TOOLS,          \* the registry: the names of the registered tools, in order
    unknown_tool_policy, \* the handling of unregistered tools the deployment asks for
    pipe,           \* the locals of one _chat_completions call and what its caller received
    tool_run,       \* the locals of one execute_tools_if_needed call
    \* ---- mcpl/servers.py, mcpl/repositories/repo_mcpl_servers.py, router_mcpl.py
    mcpl_req        \* the mcpl_servers table and one request that uses the servers

vars == <<cache, now, req, post_messages, messages, arg_after, tok_limit,
          chat_calls, prev_messages, fan_op, servers, task, results, finished,
          aggregate, TOOLS, unknown_tool_policy, pipe, tool_run, mcpl_req>>

authVars == <<cache, now, req>>
chatVars == <<post_messages, messages, arg_after, tok_limit, chat_calls, prev_messages>>
fanVars == <<fan_op, servers, task, results, finished, aggregate>>
pipeVars == <<TOOLS, unknown_tool_policy, pipe, tool_run>>
mcplVars == <<mcpl_req>>

-----------------------------------------------------------------------------
(* Generic helpers *)

\* Optional[T]: None is the empty sequence, a present value v is <<v>>.
None == <<>>
Some(v) == <<v>>
IsNone(o) == Len(o) = 0
IsSome(o) == Len(o) = 1
Get(o) == o[1]

Max(a, b) == IF a >= b THEN a ELSE b

\* list.reverse()
Reverse(s) == [i \in 1..Len(s) |-> s[Len(s) + 1 - i]]

\* sum([...]) over a sequence of integers
RECURSIVE SumSeq(_)
SumSeq(s) == IF Len(s) = 0 THEN 0 ELSE Head(s) + SumSeq(Tail(s))

\* itertools.chain.from_iterable over a sequence of sequences
RECURSIVE Flatten(_)
Flatten(ss) == IF Len(ss) = 0 THEN <<>> ELSE Head(ss) \o Flatten(Tail(ss))

\* All sequences over S of length at most n
SeqsUpTo(S, n) == UNION {[1..k -> S] : k \in 0..n}

-----------------------------------------------------------------------------
(* core/chat_models.py: the chat messages.  A message is a record           *)
(*   role, clen (= len(str(content))), tool_calls (Optional list of calls), *)
(*   tool_call_id ("" stands for None and for the empty string: both are    *)
(*   falsy, and the code only tests truthiness and membership).             *)

ToolCall(id) == [id |-> id, name |-> "ping_pong", arguments |-> "ping"]

ChatMessageSystem(role, clen) ==
    [role |-> role, clen |-> clen, tool_calls |-> None, tool_call_id |-> ""]
ChatMessageUser(clen) ==
    [role |-> "user", clen |-> clen, tool_calls |-> None, tool_call_id |-> ""]
ChatMessageAssistant(clen, tool_calls) ==
    [role |-> "assistant", clen |-> clen, tool_calls |-> tool_calls, tool_call_id |-> ""]
ChatMessageTool(clen, tool_call_id) ==
    [role |-> "tool", clen |-> clen, tool_calls |-> None, tool_call_id |-> tool_call_id]

\* isinstance(m, ChatMessageSystem): the class whose role is system or developer
IsSystem(m) == m.role \in {"system", "developer"}
IsUser(m) == m.role = "user"
IsAssistant(m) == m.role = "assistant"
IsTool(m) == m.role = "tool"

-----------------------------------------------------------------------------
(* core/chat.py *)

\* The variant that applies the floor of 1 to the quotient.
count_tokens_at_least_one(message) == Max(1, message.clen \div 4)

\* count_tokens: int(max(1, len(str(message.content))) / 4.)
count_tokens(message) == Max(1, message.clen) \div 4

\* The for loop of limit_messages over the reversed lists: a System message is
\* appended; another message is appended while it fits; the first that does
\* not fit ends the loop (break).
RECURSIVE LimitWalk(_, _, _, _, _, _)
LimitWalk(rev, takes, i, tok_count, acc, limit) ==
    IF i > Len(rev) THEN acc
    ELSE IF takes[i] THEN LimitWalk(rev, takes, i + 1, tok_count, Append(acc, rev[i]), limit)
    ELSE LET m_tokens == count_tokens(rev[i])
         IN  IF tok_count + m_tokens > limit
             THEN acc
             ELSE LimitWalk(rev, takes, i + 1, tok_count + m_tokens,
                            Append(acc, rev[i]), limit)

\* The variant that does not pre-charge the System messages' cost.
limit_messages_uncharged(msgs, limit) ==
    LET take_messages == [i \in 1..Len(msgs) |-> IsSystem(msgs[i])]
    IN  Reverse(LimitWalk(Reverse(msgs), Reverse(take_messages), 1, 0, <<>>, limit))

\* The variant without the final new_messages.reverse().
limit_messages_newest_first(msgs, limit) ==
    LET take_messages == [i \in 1..Len(msgs) |-> IsSystem(msgs[i])]
        tok_count == SumSeq([i \in 1..Len(msgs) |->
                        IF take_messages[i] THEN count_tokens(msgs[i]) ELSE 0])
    IN  LimitWalk(Reverse(msgs), Reverse(take_messages), 1, tok_count, <<>>, limit)

\* limit_messages(messages) with MESSAGES_TOK_LIMIT = limit: the returned list
limit_messages(msgs, limit) ==
    LET take_messages == [i \in 1..Len(msgs) |-> IsSystem(msgs[i])]
        tok_count == SumSeq([i \in 1..Len(msgs) |->
                        IF take_messages[i] THEN count_tokens(msgs[i]) ELSE 0])
    IN  Reverse(LimitWalk(Reverse(msgs), Reverse(take_messages), 1, tok_count, <<>>, limit))

\* The tool calls of a message, as a list ([] when tool_calls is None)
CallsOf(m) == IF IsAssistant(m) /\ IsSome(m.tool_calls) THEN Get(m.tool_calls) ELSE <<>>

\* answered_tool_call_ids: the truthy tool_call_id of the Tool messages
answered_tool_call_ids(msgs) ==
    {msgs[i].tool_call_id : i \in {j \in 1..Len(msgs) :
        IsTool(msgs[j]) /\ msgs[j].tool_call_id # ""}}

\* The variant that looks at the last Assistant message only.
get_unanswered_last_only(msgs) ==
    LET answered == answered_tool_call_ids(msgs)
        Unanswered(c) == c.id \notin answered
        assistants == {i \in 1..Len(msgs) : IsAssistant(msgs[i])}
    IN  Flatten([i \in 1..Len(msgs) |->
            IF \A j \in assistants : j <= i
            THEN SelectSeq(CallsOf(msgs[i]), Unanswered) ELSE <<>>])

\* get_unanswered_tool_calls, as the list of the calls it yields
get_unanswered_tool_calls(msgs) ==
    LET answered == answered_tool_call_ids(msgs)
        Unanswered(c) == c.id \notin answered
    IN  Flatten([i \in 1..Len(msgs) |-> SelectSeq(CallsOf(msgs[i]), Unanswered)])

\* The variant that drops only the first unanswered call of each message.
remove_trail_first_only(msgs) ==
    LET ids == {c.id : c \in {get_unanswered_tool_calls(msgs)[k] :
                        k \in 1..Len(get_unanswered_tool_calls(msgs))}}
        DropFirst(calls) ==
            LET hits == {k \in 1..Len(calls) : calls[k].id \in ids}
            IN  IF hits = {} THEN calls
                ELSE LET f == CHOOSE k \in hits : \A h \in hits : k <= h
                     IN  SubSeq(calls, 1, f - 1) \o SubSeq(calls, f + 1, Len(calls))
    IN  [i \in 1..Len(msgs) |->
            IF IsAssistant(msgs[i]) /\ Len(CallsOf(msgs[i])) > 0
            THEN LET kept == DropFirst(CallsOf(msgs[i]))
                 IN  [msgs[i] EXCEPT !.tool_calls = IF Len(kept) = 0 THEN None ELSE Some(kept)]
            ELSE msgs[i]]

\* The variant of lines 76-77 that leaves the emptied list in place.
remove_trail_keeps_empty_list(msgs) ==
    LET unanswered_tool_calls == get_unanswered_tool_calls(msgs)
        unanswered_tool_call_ids ==
            {unanswered_tool_calls[k].id : k \in 1..Len(unanswered_tool_calls)}
        Keep(c) == c.id \notin unanswered_tool_call_ids
    IN  [i \in 1..Len(msgs) |->
            IF IsAssistant(msgs[i]) /\ Len(CallsOf(msgs[i])) > 0
            THEN [msgs[i] EXCEPT !.tool_calls = Some(SelectSeq(CallsOf(msgs[i]), Keep))]
            ELSE msgs[i]]

\* remove_trail_tool_calls: the list after the in-place update
remove_trail_tool_calls(msgs) ==
    LET unanswered_tool_calls == get_unanswered_tool_calls(msgs)
        unanswered_tool_call_ids ==
            {unanswered_tool_calls[k].id : k \in 1..Len(unanswered_tool_calls)}
        Keep(c) == c.id \notin unanswered_tool_call_ids
    IN  [i \in 1..Len(msgs) |->
            IF IsAssistant(msgs[i]) /\ Len(CallsOf(msgs[i])) > 0
            THEN LET kept == SelectSeq(CallsOf(msgs[i]), Keep)
                 IN  [msgs[i] EXCEPT !.tool_calls = IF Len(kept) = 0 THEN None ELSE Some(kept)]
            ELSE msgs[i]]

-----------------------------------------------------------------------------
(* core/routers/router_auth.py *)

CACHE_ITEM_EXPIRATION_TIME == 360

\* An Authorization header value is a sequence of atoms: the literal word
\* "Bearer", another word ("Basic", a token "a", "b"), or one whitespace
\* character "sp".  The header itself is Optional (None: no header sent).
IsSpace(c) == c = "sp"

\* The variant that accepts any scheme word before the whitespace.
MATCH_BEARER_any_scheme(h) ==
    IF Len(h) >= 3 /\ ~IsSpace(h[1]) /\ IsSpace(h[2])
    THEN Some(SubSeq(h, 3, Len(h))) ELSE None

\* MATCH_BEARER.match(h) for ^Bearer\s+(.+)$ : None, or Some(group 1).
\* \s+ is greedy: it takes the whole whitespace run after "Bearer", and gives
\* one character back when nothing would be left for (.+).
MATCH_BEARER(h) ==
    IF Len(h) < 2 \/ h[1] # "Bearer" \/ ~IsSpace(h[2]) THEN None
    ELSE LET run == CHOOSE n \in 1..(Len(h) - 1) :
                        /\ \A k \in 2..(n + 1) : IsSpace(h[k])
                        /\ (n + 2 <= Len(h) => ~IsSpace(h[n + 2]))
         IN  IF Len(h) - (run + 1) > 0 THEN Some(SubSeq(h, run + 2, Len(h)))
             ELSE IF run >= 2 THEN Some(SubSeq(h, Len(h), Len(h)))
             ELSE None

AuthItem(api_key, user_id) == [api_key |-> api_key, user_id |-> user_id]
CacheAuthItem(item, cached_ts) == [item |-> item, cached_ts |-> cached_ts]

\* The variant that takes the age in milliseconds.
auth_s_left_ms(item, t) == CACHE_ITEM_EXPIRATION_TIME - (t - item.cached_ts) * 1000

\* auth_s_left(item) evaluated when time.time() = t
auth_s_left(item, t) == CACHE_ITEM_EXPIRATION_TIME - (t - item.cached_ts)

\* The variant that returns an entry whatever key it was stored under.
CacheGet_any_key(c, api_key) ==
    IF DOMAIN c # {} THEN Some(c[CHOOSE k \in DOMAIN c : TRUE]) ELSE None

\* self.cache.get(api_key)
CacheGet(c, api_key) == IF api_key \in DOMAIN c THEN Some(c[api_key]) ELSE None

\* The variant that leaves an entry that is already there.
CachePut_setdefault(c, api_key, entry) ==
    [k \in DOMAIN c \cup {api_key} |-> IF k \in DOMAIN c THEN c[k] ELSE entry]

\* self.cache[api_key] = entry
CachePut(c, api_key, entry) ==
    [k \in DOMAIN c \cup {api_key} |-> IF k = api_key THEN entry ELSE c[k]]

\* The variant of the test at line 77 that also serves an entry aged exactly TTL
CacheHit_inclusive(found, t) == IsSome(found) /\ auth_s_left(Get(found), t) >= 0

\* lines 75-79: the entry exists and s_left > 0
CacheHit(found, t) == IsSome(found) /\ auth_s_left(Get(found), t) > 0

\* lines 66-71: `not authorization` (None or "") or no match: return None
NoIdentity(authorization) ==
    \/ IsNone(authorization)
    \/ Len(Get(authorization)) = 0
    \/ IsNone(MATCH_BEARER(Get(authorization)))

\* fetch_auth_item: what the identity service's answer becomes.
\*   "auth"      status 200, a JSON object with an `auth` object
\*   "no_auth"   status 200, a JSON object without `auth`
\*   "non200"    any other status: {"error": {...}}
\*   "exception" the connection fails or the body is not JSON: the call raises
AnswerKinds == {"auth", "no_auth", "non200", "exception"}

\* The variant that tests the status instead of the `auth` key.
HasAuth_status_only(kind) == kind \in {"auth", "no_auth"}

\* line 83: "auth" in a_item
HasAuth(kind) == kind = "auth"

-----------------------------------------------------------------------------
(* Spec: concurrent POST /v1/chat/completions requests.  A request is the   *)
(* coroutine ChatCompletionsRouter._chat_completions; an action is the code *)
(* it runs between two suspension points (awaits of network or storage).    *)

NReq == 2
MaxTicks == 2
UserIds == {1, 2}

Headers ==
    {None,
     Some(<<>>),
     Some(<<"Basic", "sp", "a">>),
     Some(<<"Bearer", "sp">>),
     Some(<<"Bearer", "sp", "a">>),
     Some(<<"Bearer", "sp", "sp", "a">>),
     Some(<<"Bearer", "sp", "b">>)}

Reqs == 1..NReq

\* The locals of one _chat_completions call.
\*   pc            "new" (not received yet), the await it is suspended at
\*                 ("fetch_auth", "get_servers", "tools_props", "tools_execute",
\*                 "upstream"), or "done"
\*   status        the HTTP status it answered with (0: none yet)
\*   authorization the Authorization header;  api_key: match.group(1)
\*   auth          what _check_auth returned
\*   relayed       the upstream's body was relayed to the caller
\*   id_calls, db_calls, props_calls, exec_calls, up_calls: requests it issued
\*   to the identity service, the server repository, the capability servers
\*   (tools-props, tools-execute fan-outs) and the upstream
\*   local_runs    the calls of execute_tools_if_needed it made
\* and, recorded for the properties:
\*   seen          what self.cache.get(api_key) found, by age (see Seen)
\*   answer        the kind of answer the identity service gave it
\*   after_denial  when it was received, a request of the same api_key had
\*                 already been denied by the identity service
NewReq ==
    [pc |-> "new", status |-> 0, authorization |-> None, api_key |-> None,
     auth |-> None, relayed |-> FALSE,
     id_calls |-> 0, db_calls |-> 0, props_calls |-> 0, local_runs |-> 0,
     exec_calls |-> 0, up_calls |-> 0,
     seen |-> "", answer |-> "", after_denial |-> FALSE]

InitAuthIdle == cache = <<>> /\ now = 0 /\ req = <<>>
InitFanIdle ==
    /\ fan_op = "tools" /\ servers = <<>> /\ task = <<>> /\ results = <<>>
    /\ finished = <<>> /\ aggregate = None

InitChatIdle ==
    /\ post_messages = <<>> /\ messages = <<>> /\ arg_after = None
    /\ tok_limit = 0 /\ chat_calls = <<>> /\ prev_messages = <<>>

InitPipeIdle ==
    TOOLS = <<>> /\ unknown_tool_policy = "permissive" /\ pipe = <<>> /\ tool_run = <<>>

InitMcplIdle == mcpl_req = <<>>

Init ==
    /\ cache = <<>>
    /\ now = 0
    /\ req = [r \in Reqs |-> NewReq]
    /\ InitChatIdle
    /\ InitFanIdle
    /\ InitPipeIdle
    /\ InitMcplIdle

\* The age class of the entry a lookup found at time t: "absent", "live"
\* (t - cached_ts below the expiration time), "boundary" (equal to it), "expired".
Seen(found, t) ==
    IF IsNone(found) THEN "absent"
    ELSE LET age == t - Get(found).cached_ts
         IN  IF age < CACHE_ITEM_EXPIRATION_TIME THEN "live"
             ELSE IF age = CACHE_ITEM_EXPIRATION_TIME THEN "boundary"
             ELSE "expired"

\* A request the identity service denied
Denied(q) == q.pc = "done" /\ q.status = 401 /\ q.id_calls > 0

\* The variant of lines 110-111 without the return: the pipeline goes on.
AuthError_goes_on(q) == [q EXCEPT !.pc = "get_servers", !.status = 401, !.db_calls = @ + 1]

\* _auth_error_response(): the 401 envelope ends the request
AuthError(q) == [q EXCEPT !.pc = "done", !.status = 401]

\* Line 118: get_active_servers awaits the repository
AwaitServers(q, item) ==
    [q EXCEPT !.pc = "get_servers", !.auth = Some(item), !.db_calls = @ + 1]

\* The request arrives: _check_auth runs to its return or to the await of
\* fetch_auth_item (lines 65-81), and on a cache hit _chat_completions goes on
\* to the await of get_active_servers.
Receive(r, h) ==
    /\ req[r].pc = "new"
    /\ \A o \in Reqs : o < r => req[o].pc # "new"
    /\ LET q == [req[r] EXCEPT !.authorization = h]
       IN  IF NoIdentity(h)
           THEN req' = [req EXCEPT ![r] = AuthError(q)]
           ELSE LET api_key == Get(MATCH_BEARER(Get(h)))
                    found == CacheGet(cache, api_key)
                    q2 == [q EXCEPT !.api_key = Some(api_key),
                                    !.seen = Seen(found, now),
                                    !.after_denial = \E o \in Reqs :
                                        Denied(req[o]) /\ req[o].api_key = Some(api_key)]
                IN  IF CacheHit(found, now)
                    THEN req' = [req EXCEPT ![r] = AwaitServers(q2, Get(found).item)]
                    ELSE req' = [req EXCEPT ![r] =
                                    [q2 EXCEPT !.pc = "fetch_auth", !.id_calls = @ + 1]]
    /\ UNCHANGED <<cache, now>>
    /\ UNCHANGED <<chatVars, fanVars, pipeVars, mcplVars>>

\* The identity service answers (fetch_auth_item returns or raises), and
\* _check_auth runs lines 83-89.  An exception is not caught: the request
\* ends with the framework's 500.
AuthReturn(r, kind, u) ==
    /\ req[r].pc = "fetch_auth"
    /\ LET q == [req[r] EXCEPT !.answer = kind]
           api_key == Get(q.api_key)
           item == AuthItem(api_key, u)
       IN  IF kind = "exception"
           THEN /\ req' = [req EXCEPT ![r] = [q EXCEPT !.pc = "done", !.status = 500]]
                /\ cache' = cache
           ELSE IF HasAuth(kind)
           THEN /\ cache' = CachePut(cache, api_key, CacheAuthItem(item, now))
                /\ req' = [req EXCEPT ![r] = AwaitServers(q, item)]
           ELSE /\ cache' = cache
                /\ req' = [req EXCEPT ![r] = AuthError(q)]
    /\ UNCHANGED now
    /\ UNCHANGED <<chatVars, fanVars, pipeVars, mcplVars>>

\* get_active_servers returns; lines 122-130.  compose is the test of line
\* 122 on the request's messages: compose_system_message awaits
\* get_mcpl_tool_props, or execute_tools_if_needed runs (TOOLS is empty: no
\* await) and mcpl_tools_execute awaits its gather.
ServersReturn(r, compose) ==
    /\ req[r].pc = "get_servers"
    /\ req' = [req EXCEPT ![r] =
                  IF compose
                  THEN [req[r] EXCEPT !.pc = "tools_props", !.props_calls = @ + 1]
                  ELSE [req[r] EXCEPT !.pc = "tools_execute", !.local_runs = @ + 1,
                                      !.exec_calls = @ + 1]]
    /\ UNCHANGED <<cache, now>>
    /\ UNCHANGED <<chatVars, fanVars, pipeVars, mcplVars>>

\* get_mcpl_tool_props returns; lines 124-130
PropsReturn(r) ==
    /\ req[r].pc = "tools_props"
    /\ req' = [req EXCEPT ![r] = [req[r] EXCEPT !.pc = "tools_execute", !.local_runs = @ + 1,
                                               !.exec_calls = @ + 1]]
    /\ UNCHANGED <<cache, now>>
    /\ UNCHANGED <<chatVars, fanVars, pipeVars, mcplVars>>

\* mcpl_tools_execute returns; lines 132-155 build the StreamingResponse
\* (status 200) and its generator posts to the upstream (lines 59-63, 74-78).
ExecuteReturn(r) ==
    /\ req[r].pc = "tools_execute"
    /\ req' = [req EXCEPT ![r] =
                  [req[r] EXCEPT !.pc = "upstream", !.status = 200, !.up_calls = @ + 1]]
    /\ UNCHANGED <<cache, now>>
    /\ UNCHANGED <<chatVars, fanVars, pipeVars, mcplVars>>

\* The variant that posts again when the post raised.
UpstreamReturn_retry(r, ok) ==
    /\ req[r].pc = "upstream"
    /\ req' = [req EXCEPT ![r] =
                  IF ok THEN [req[r] EXCEPT !.pc = "done", !.relayed = TRUE]
                  ELSE [req[r] EXCEPT !.up_calls = @ + 1]]
    /\ UNCHANGED <<cache, now>>
    /\ UNCHANGED <<chatVars, fanVars, pipeVars, mcplVars>>

\* The upstream answers and its body is relayed, or the post raises: the
\* exception leaves the response generator and the request is over.
UpstreamReturn(r, ok) ==
    /\ req[r].pc = "upstream"
    /\ req' = [req EXCEPT ![r] = [req[r] EXCEPT !.pc = "done", !.relayed = ok]]
    /\ UNCHANGED <<cache, now>>
    /\ UNCHANGED <<chatVars, fanVars, pipeVars, mcplVars>>

\* Time passes: just under the expiration time, or exactly the expiration time.
TickSteps == {CACHE_ITEM_EXPIRATION_TIME - 1, CACHE_ITEM_EXPIRATION_TIME}
Tick(d) ==
    /\ now + d <= MaxTicks * CACHE_ITEM_EXPIRATION_TIME
    /\ now' = now + d
    /\ UNCHANGED <<cache, req>>
    /\ UNCHANGED <<chatVars, fanVars, pipeVars, mcplVars>>

Next ==
    \/ \E r \in Reqs, h \in Headers : Receive(r, h)
    \/ \E r \in Reqs, kind \in AnswerKinds, u \in UserIds : AuthReturn(r, kind, u)
    \/ \E r \in Reqs, compose \in BOOLEAN : ServersReturn(r, compose)
    \/ \E r \in Reqs : PropsReturn(r)
    \/ \E r \in Reqs : ExecuteReturn(r)
    \/ \E r \in Reqs, ok \in BOOLEAN : UpstreamReturn(r, ok)
    \/ \E d \in TickSteps : Tick(d)

Spec == Init /\ [][Next]_vars

\* ---- vocabulary of the claims on authentication

Received(q) == q.pc # "new"

\* The header has the shape `Bearer <token>`: the word Bearer, whitespace,
\* and at least one more character.
BearerShaped(authorization) ==
    /\ IsSome(authorization)
    /\ Len(Get(authorization)) >= 3
    /\ Get(authorization)[1] = "Bearer"
    /\ IsSpace(Get(authorization)[2])

NoExternalCall(q) ==
    /\ q.id_calls = 0 /\ q.db_calls = 0 /\ q.props_calls = 0 /\ q.exec_calls = 0
    /\ q.up_calls = 0 /\ q.local_runs = 0

\* C1: a chat-completion request whose Authorization header is absent or is
\* not of the shape `Bearer <token>` ends with the 401 envelope, and makes no
\* identity-service call and no upstream call.
C1_NoBearerIs401 ==
    \A r \in Reqs :
        (Received(req[r]) /\ ~BearerShaped(req[r].authorization))
            => /\ req[r].pc = "done" /\ req[r].status = 401
               /\ req[r].id_calls = 0 /\ req[r].up_calls = 0

\* C1 witness: a request with a non-Bearer scheme was answered 401 while
\* another request, with a Bearer header, reached the upstream.
C1_Witness ==
    \E r, o \in Reqs :
        /\ req[r].authorization = Some(<<"Basic", "sp", "a">>)
        /\ req[r].status = 401 /\ NoExternalCall(req[r])
        /\ req[o].up_calls = 1

SameKey(q, o) == IsSome(q.api_key) /\ q.api_key = o.api_key
Resolved(q) == q.pc \notin {"new", "fetch_auth"}

C3_ExpiredEntryFetches ==
    \A r \in Reqs :
        req[r].seen \in {"boundary", "expired"}
            => /\ req[r].id_calls = 1
               /\ (req[r].pc = "fetch_auth" \/ req[r].answer # "")

\* C3 witness: a resolve found an entry aged exactly 360 seconds and is
\* waiting for the identity service.
C3_Witness ==
    \E r \in Reqs :
        /\ req[r].seen = "boundary" /\ req[r].pc = "fetch_auth"
        /\ now - cache[Get(req[r].api_key)].cached_ts = CACHE_ITEM_EXPIRATION_TIME

DenyingAnswers == {"no_auth", "non200"}

\* The step in which the identity service denies request r
DeniedStep(r) == req[r].pc = "fetch_auth" /\ req'[r].answer \in DenyingAnswers

\* C4: when the identity service answers with a non-200 status or with a
\* body without `auth`, resolve returns no identity (the request ends 401)
\* and that step leaves the cache as it was; a resolve of the same token
\* received after the denial, finding no live entry, calls the identity
\* service afresh.
C4_FailureNotCached ==
    /\ [][\A r \in Reqs : DeniedStep(r) =>
            /\ cache' = cache
            /\ IsNone(req'[r].auth)
            /\ req'[r].pc = "done" /\ req'[r].status = 401]_vars
    /\ [](\A r \in Reqs :
            (req[r].after_denial /\ req[r].seen # "live") => req[r].id_calls = 1)

\* C4 witness: a request was denied (non-200), the cache holds nothing, and
\* a later request of the same token is calling the identity service again.
C4_Witness ==
    \E r, o \in Reqs :
        /\ r # o /\ SameKey(req[r], req[o])
        /\ req[r].answer = "non200" /\ req[r].status = 401
        /\ cache = <<>>
        /\ req[o].after_denial /\ req[o].pc = "fetch_auth" /\ req[o].id_calls = 1

C18_DeniedShortCircuits ==
    \A r \in Reqs :
        req[r].answer \in DenyingAnswers
            => /\ req[r].pc = "done" /\ req[r].status = 401
               /\ req[r].db_calls = 0 /\ req[r].props_calls = 0 /\ req[r].local_runs = 0
               /\ req[r].exec_calls = 0 /\ req[r].up_calls = 0 /\ ~req[r].relayed

\* C18 witness: the identity service answered 200 without `auth` for one
\* request and accepted another, which went on to the upstream.
C18_Witness ==
    \E r, o \in Reqs :
        /\ req[r].answer = "no_auth" /\ req[r].status = 401 /\ req[r].id_calls = 1
        /\ req[o].answer = "auth" /\ req[o].up_calls = 1 /\ req[o].local_runs = 1

-----------------------------------------------------------------------------
(* SpecChat: the functions of core/chat.py applied to bounded conversations, *)
(* in the order _chat_completions applies them (limit_messages, then        *)
(* remove_trail_tool_calls), and remove_trail_tool_calls applied again.     *)

MaxWindowMsgs == 4
MaxPruneMsgs == 3
MaxBudget == 3
MaxPrunes == 2
MaxWindowings == 2

\* Conversations that differ in roles and content lengths (costs 0, 1, 2)
WindowMsgs ==
    {ChatMessageSystem("system", 4), ChatMessageSystem("developer", 8),
     ChatMessageUser(3), ChatMessageUser(5), ChatMessageAssistant(9, None),
     ChatMessageTool(4, "a")}

\* Conversations that differ in tool calls and tool responses
CallIds == {"", "a", "b"}
CallLists == {cs \in SeqsUpTo(CallIds, 2) : TRUE}
PruneMsgs ==
    {ChatMessageAssistant(0, None)}
    \cup {ChatMessageAssistant(0, Some([k \in 1..Len(cs) |-> ToolCall(cs[k])])) : cs \in CallLists}
    \cup {ChatMessageTool(0, id) : id \in CallIds}

InitChat ==
    /\ \/ /\ post_messages \in SeqsUpTo(WindowMsgs, MaxWindowMsgs)
          /\ tok_limit \in 0..MaxBudget
       \/ /\ post_messages \in SeqsUpTo(PruneMsgs, MaxPruneMsgs)
          /\ tok_limit = MaxBudget
    /\ messages = post_messages
    /\ arg_after = None
    /\ chat_calls = <<>>
    /\ prev_messages = <<>>
    /\ InitAuthIdle
    /\ InitFanIdle
    /\ InitPipeIdle
    /\ InitMcplIdle

Prunes(calls) == Len(SelectSeq(calls, LAMBDA c : c = "remove_trail_tool_calls"))

Windowings(calls) == Len(SelectSeq(calls, LAMBDA c : c = "limit_messages"))

\* messages = limit_messages(messages): the argument is reversed in place
\* (messages.reverse()) and the caller's name is rebound to the returned
\* list.  The call can be made again on the list it returned.
LimitMessages ==
    /\ Windowings(chat_calls) < MaxWindowings
    /\ Prunes(chat_calls) = 0
    /\ prev_messages' = messages
    /\ messages' = limit_messages(messages, tok_limit)
    /\ arg_after' = Some(Reverse(messages))
    /\ chat_calls' = Append(chat_calls, "limit_messages")
    /\ UNCHANGED <<post_messages, tok_limit>>
    /\ UNCHANGED <<authVars, fanVars, pipeVars, mcplVars>>

\* remove_trail_tool_calls(messages): updates the Assistant messages in place
RemoveTrail ==
    /\ Prunes(chat_calls) < MaxPrunes
    /\ prev_messages' = messages
    /\ messages' = remove_trail_tool_calls(messages)
    /\ chat_calls' = Append(chat_calls, "remove_trail_tool_calls")
    /\ UNCHANGED <<post_messages, tok_limit, arg_after>>
    /\ UNCHANGED <<authVars, fanVars, pipeVars, mcplVars>>

NextChat == LimitMessages \/ RemoveTrail

SpecChat == InitChat /\ [][NextChat]_vars

\* ---- vocabulary of the claims on core/chat.py

Windowed == Len(chat_calls) = 1 /\ chat_calls[1] = "limit_messages"
Pruned == Len(chat_calls) > 0 /\ chat_calls[Len(chat_calls)] = "remove_trail_tool_calls"
Cost(msgs) == SumSeq([i \in 1..Len(msgs) |-> count_tokens(msgs[i])])
SystemOf(msgs) == SelectSeq(msgs, IsSystem)
NonSystem(m) == ~IsSystem(m)
ToolCallIdsIn(msgs) == {msgs[j].tool_call_id : j \in {k \in 1..Len(msgs) : IsTool(msgs[k])}}
AllCalls(msgs) == Flatten([i \in 1..Len(msgs) |-> CallsOf(msgs[i])])

\* C5: windowing keeps every System/Developer message of its input: the
\* System/Developer messages of the returned list are those of the input.
C5_SystemKept == Windowed => SystemOf(messages) = SystemOf(post_messages)

\* C6: the summed estimated cost of the list windowing returns is at most
\* the budget, unless the System messages' cost alone exceeds the budget.
C6_CostWithinBudget ==
    Windowed => \/ Cost(messages) <= tok_limit
                \/ Cost(SystemOf(post_messages)) > tok_limit

\* C6 witness: windowing dropped a message, kept a non-System one next to a
\* System one, and the result fills the budget exactly.
C6_Witness ==
    /\ Windowed
    /\ Len(messages) < Len(post_messages)
    /\ Len(SystemOf(messages)) > 0
    /\ Len(SelectSeq(messages, NonSystem)) > 0
    /\ Cost(messages) = tok_limit
    /\ tok_limit > 0

\* C7: after remove_trail_tool_calls every tool call still carried by an
\* Assistant message has the tool_call_id of some Tool message of the list.
C7_NoDanglingCall ==
    Pruned => \A k \in 1..Len(AllCalls(messages)) :
                  AllCalls(messages)[k].id \in ToolCallIdsIn(messages)

\* C7 witness: a pruning that removed a call and left an answered one.
C7_Witness ==
    /\ Pruned
    /\ Len(AllCalls(messages)) > 0
    /\ Len(AllCalls(messages)) < Len(AllCalls(prev_messages))

\* C8: pruning an already pruned list changes no message and no tool-call list.
C8_PruneIdempotent ==
    (Pruned /\ Prunes(chat_calls) >= 2) => messages = prev_messages

\* C8 witness: the second pruning of a list whose first pruning removed calls
\* from one message and cleared the tool-call field of another.
C8_Witness ==
    /\ Pruned /\ Prunes(chat_calls) = 2
    /\ messages # post_messages
    /\ \E i \in 1..Len(messages) :
          /\ IsNone(messages[i].tool_calls) /\ IsSome(post_messages[i].tool_calls)
          /\ Len(Get(post_messages[i].tool_calls)) > 0
    /\ Len(AllCalls(messages)) > 0

\* The messages of msgs that are System/Developer or stand after index n
KeptFrom(msgs, n) ==
    Flatten([i \in 1..Len(msgs) |-> IF IsSystem(msgs[i]) \/ i > n THEN <<msgs[i]>> ELSE <<>>])

\* C28: the list windowing returns is the input's System messages together
\* with a contiguous most-recent suffix of its other messages, in the
\* original order.
C28_SystemPlusRecentSuffix ==
    Windowed => \E n \in 0..Len(post_messages) : messages = KeptFrom(post_messages, n)

\* C29: when the System messages alone cost more than the budget, or the
\* newest other message does not fit in what they leave, windowing returns
\* exactly the System messages.
C29_OnlySystemWhenNothingFits ==
    LET others == SelectSeq(post_messages, NonSystem)
    IN  (/\ Windowed
         /\ \/ Cost(SystemOf(post_messages)) > tok_limit
            \/ /\ Len(others) > 0
               /\ Cost(SystemOf(post_messages)) + count_tokens(others[Len(others)]) > tok_limit)
            => messages = SystemOf(post_messages)

\* A call is answered when its id is the (non-empty) tool_call_id of a Tool message
AnsweredIn(msgs, c) == c.id # "" /\ c.id \in ToolCallIdsIn(msgs)

-----------------------------------------------------------------------------
(* mcpl/wrappers.py: get_mcpl_tools, get_mcpl_tool_props, mcpl_tools_execute. *)
(* Each creates one task per server (fetch_from_server / execute_on_server),  *)
(* awaits asyncio.gather over them and chains the per-server lists.           *)

MaxServers == 3
MaxItems == 2

FanOps == {"tools", "tools-props", "tools-execute"}
AddressPool == <<"s1", "s2", "s3", "s4", "s5">>

\* What a server does with the request:
\*   "exception"  the connection fails (c_session.get / post raises)
\*   "non200"     it answers with another status than 200
\*   "bad_body"   status 200, but the body is not JSON, lacks the expected
\*                key, or an item fails validation
\*   "ok"         status 200 and a body with a valid list of items
Outcomes == {"exception", "non200", "bad_body", "ok"}

\* The items of server i's body: item k of server i
Payload(i, n) == [k \in 1..n |-> [server |-> i, no |-> k]]

\* What a task hands to gather: a returned list, or a raised exception
Returned(list) == [raised |-> FALSE, value |-> list]
Raised == [raised |-> TRUE, value |-> <<>>]

\* The variant without the try/except: an exception leaves the task.
fetch_from_server_uncaught(outcome, payload) ==
    IF outcome = "ok" THEN Returned(payload)
    ELSE IF outcome = "non200" THEN Returned(<<>>)
    ELSE Raised

\* fetch_from_server / execute_on_server: the list the task returns.
\* Status 200 with a valid body: the items; another status: [] (else branch);
\* any Exception: [] (except branch).
fetch_from_server(outcome, payload) ==
    IF outcome = "ok" THEN Returned(payload) ELSE Returned(<<>>)

\* The variant that collects the results as the tasks complete.
gather_as_completed(res, order) ==
    IF \E i \in 1..Len(res) : IsSome(res[i]) /\ Get(res[i]).raised THEN Raised
    ELSE Returned(Flatten([k \in 1..Len(order) |-> Get(res[order[k]]).value]))

\* list(chain.from_iterable(await asyncio.gather(*tasks))): gather returns the
\* results in the order of its arguments, whatever order the tasks completed
\* in (order), and raises the first exception a task raised.
gather(res, order) ==
    IF \E i \in 1..Len(res) : IsSome(res[i]) /\ Get(res[i]).raised THEN Raised
    ELSE Returned(Flatten([i \in 1..Len(res) |-> Get(res[i]).value]))

NewTask == [pc |-> "created", outcome |-> "", sent |-> <<>>]

InitFanout ==
    /\ fan_op \in FanOps
    /\ \E n \in 0..MaxServers : servers = [i \in 1..n |-> [address |-> AddressPool[i]]]
    /\ task = [i \in 1..Len(servers) |-> NewTask]
    /\ results = [i \in 1..Len(servers) |-> None]
    /\ finished = <<>>
    /\ aggregate = None
    /\ InitAuthIdle
    /\ InitChatIdle
    /\ InitPipeIdle
    /\ InitMcplIdle

Servers == 1..Len(servers)

\* Task i runs to its await of the response: the request is sent.  The event
\* loop starts the tasks in the order gather was given them.
SendRequest(i) ==
    /\ task[i].pc = "created"
    /\ \A j \in Servers : j < i => task[j].pc # "created"
    /\ task' = [task EXCEPT ![i].pc = "requested"]
    /\ UNCHANGED <<fan_op, servers, results, finished, aggregate>>
    /\ UNCHANGED <<authVars, chatVars, pipeVars, mcplVars>>

\* Server i's answer (or failure) arrives and task i runs to its end.
Complete(i, outcome, n) ==
    /\ task[i].pc = "requested"
    /\ outcome = "ok" \/ n = 0
    /\ task' = [task EXCEPT ![i] = [pc |-> "done", outcome |-> outcome, sent |-> Payload(i, n)]]
    /\ results' = [results EXCEPT ![i] = Some(fetch_from_server(outcome, Payload(i, n)))]
    /\ finished' = Append(finished, i)
    /\ UNCHANGED <<fan_op, servers, aggregate>>
    /\ UNCHANGED <<authVars, chatVars, pipeVars, mcplVars>>

\* gather returns once every task is done (or raises as soon as one raised)
\* and the fan-out returns the chained list.
Gather ==
    /\ IsNone(aggregate)
    /\ \/ \A i \in Servers : task[i].pc = "done"
       \/ \E i \in Servers : IsSome(results[i]) /\ Get(results[i]).raised
    /\ aggregate' = Some(gather(results, finished))
    /\ UNCHANGED <<fan_op, servers, task, results, finished>>
    /\ UNCHANGED <<authVars, chatVars, pipeVars, mcplVars>>

NextFanout ==
    \/ \E i \in Servers : SendRequest(i)
    \/ \E i \in Servers, outcome \in Outcomes, n \in 0..MaxItems : Complete(i, outcome, n)
    \/ Gather

SpecFanout == InitFanout /\ [][NextFanout]_vars

\* ---- vocabulary of the claims on the fan-out

Failed(i) == task[i].pc = "done" /\ task[i].outcome # "ok"
Succeeded(i) == task[i].pc = "done" /\ task[i].outcome = "ok"
FromServer(list, i) == SelectSeq(list, LAMBDA it : it.server = i)

\* C9: whatever subset of the servers fails (exception, non-200, bad body),
\* the fan-out returns without error; what it returns holds, for each server
\* that succeeded, exactly its items and, for each that failed, nothing; and
\* a failed server never keeps a sibling from being called and answered.
C9_FaultIsolated ==
    /\ IsSome(aggregate) =>
          /\ ~Get(aggregate).raised
          /\ \A i \in Servers :
                /\ task[i].pc = "done"
                /\ FromServer(Get(aggregate).value, i) =
                      IF Succeeded(i) THEN task[i].sent ELSE <<>>
          /\ Len(Get(aggregate).value) =
                SumSeq([i \in Servers |-> IF Succeeded(i) THEN Len(task[i].sent) ELSE 0])
    /\ \A i \in Servers :
          (task[i].pc = "created" /\ \A j \in Servers : j < i => task[j].pc # "created")
              => ENABLED SendRequest(i)
    /\ \A i \in Servers : task[i].pc = "requested" => ENABLED Complete(i, "ok", 1)

\* C9 witness: three servers, the middle one failed with a network
\* exception, and the fan-out returned the items of the other two.
C9_Witness ==
    /\ IsSome(aggregate) /\ Len(servers) = 3
    /\ task[2].outcome = "exception"
    /\ Succeeded(1) /\ Succeeded(3)
    /\ Get(aggregate).value = task[1].sent \o task[3].sent
    /\ Len(task[1].sent) > 0 /\ Len(task[3].sent) > 0

\* C10: whatever order the per-server calls complete in, the aggregate is
\* the concatenation of the per-server results in server-enumeration order,
\* each server's own order kept.
C10_EnumerationOrder ==
    IsSome(aggregate) =>
        /\ Get(aggregate).value = Flatten([i \in Servers |-> Get(results[i]).value])
        /\ \A a, b \in 1..Len(Get(aggregate).value) :
              a < b => LET x == Get(aggregate).value[a]
                           y == Get(aggregate).value[b]
                       IN  x.server < y.server \/ (x.server = y.server /\ x.no < y.no)

\* C10 witness: the servers completed in the reverse of their enumeration
\* order and each contributed two items.
C10_Witness ==
    /\ IsSome(aggregate) /\ Len(servers) = 3
    /\ finished = <<3, 2, 1>>
    /\ \A i \in Servers : Succeeded(i) /\ Len(task[i].sent) = 2
    /\ Len(Get(aggregate).value) = 6

-----------------------------------------------------------------------------
(* core/tools: the local tool registry and executor (tools.py,              *)
(* tool_ping_pong.py, utils.py).  A tool call is a record id, name          *)
(* (function.name) and arguments (function.arguments), the latter one of    *)
(*   "ping"        the text {"message": "ping"}                             *)
(*   "pong"        the text {"message": "pong"}                             *)
(*   "not_str"     the text {"message": 1}                                  *)
(*   "malformed"   a text that is not JSON                                  *)
(*   "truncated"   another text that is not JSON                            *)
(*   "non_object"  a JSON text that is not an object, such as 5 or "ping"   *)
(* A message of the pipeline carries, besides the fields of chat.py, its    *)
(* content: a tag for a text, or "items:..." for a list of content items.   *)

ToolCallFn(id, name, arguments) == [id |-> id, name |-> name, arguments |-> arguments]

Content(m, content) ==
    [role |-> m.role, clen |-> m.clen, tool_calls |-> m.tool_calls,
     tool_call_id |-> m.tool_call_id, content |-> content]

\* json.loads(tool_call.function.arguments): the parsed value, or JSONDecodeError
NotJsonTexts == {"malformed", "truncated"}

json_loads(arguments) ==
    IF arguments \in NotJsonTexts THEN [raised |-> TRUE, value |-> [type |-> "none"]]
    ELSE IF arguments = "non_object" THEN [raised |-> FALSE, value |-> [type |-> "int"]]
    ELSE IF arguments = "not_str"
    THEN [raised |-> FALSE, value |-> [type |-> "dict", message_type |-> "int", message |-> "1"]]
    ELSE [raised |-> FALSE,
          value |-> [type |-> "dict", message_type |-> "str", message |-> arguments]]

\* The variant that leaves tool_call_id unset.
build_tool_call_no_id(content, clen, tool_call) ==
    Content(ChatMessageTool(clen, ""), content)

\* build_tool_call(content, tool_call): the Tool message answering tool_call
build_tool_call(content, clen, tool_call) ==
    Content(ChatMessageTool(clen, tool_call.id), content)

\* ToolPingPong.validate_tool_call_args: (ok, messages); args.get raises
\* AttributeError when args is not a dict.
validate_tool_call_args(tool_call, args) ==
    IF args.type # "dict" THEN [raised |-> TRUE, ok |-> FALSE, msgs |-> <<>>]
    ELSE IF args.message_type # "str"
    THEN [raised |-> FALSE, ok |-> FALSE,
          msgs |-> <<build_tool_call("Error: Expected type message str", 40, tool_call)>>]
    ELSE IF args.message # "ping"
    THEN [raised |-> FALSE, ok |-> FALSE,
          msgs |-> <<build_tool_call("Error: Expected message 'ping'", 40, tool_call)>>]
    ELSE [raised |-> FALSE, ok |-> TRUE, msgs |-> <<>>]

\* ToolPingPong.execute: (True, [build_tool_call("pong", tool_call)])
execute(tool_call, args) ==
    [raised |-> FALSE, ok |-> TRUE, msgs |-> <<build_tool_call("pong", 4, tool_call)>>]

\* The variant of lines 42-46 without the break at the User message.
messages_since_last_user_msg_all(msgs) == msgs

\* lines 42-46: the messages after the last User message
RECURSIVE messages_since_last_user_msg(_)
messages_since_last_user_msg(msgs) ==
    IF Len(msgs) = 0 THEN <<>>
    ELSE IF IsUser(msgs[Len(msgs)]) THEN <<>>
    ELSE Append(messages_since_last_user_msg(SubSeq(msgs, 1, Len(msgs) - 1)), msgs[Len(msgs)])

\* The variant of line 49 that looks for the answers in the whole conversation.
unanswered_in_turn_full(msgs) ==
    SelectSeq(Flatten([i \in 1..Len(messages_since_last_user_msg(msgs)) |->
                          CallsOf(messages_since_last_user_msg(msgs)[i])]),
              LAMBDA c : c.id \notin answered_tool_call_ids(msgs))

\* line 49: get_unanswered_tool_calls(messages_since_last_user_msg)
unanswered_in_turn(msgs) ==
    get_unanswered_tool_calls(messages_since_last_user_msg(msgs))

\* A run of execute_tools_if_needed: raised (an exception has left the
\* function), value (the local list tool_res_messages) and log (the calls made of the tool's
\* validate_tool_call_args and execute, with what they returned).
NewRun == [raised |-> FALSE, value |-> <<>>, log |-> <<>>]

LogEntry(fn, tool_call, res) ==
    [fn |-> fn, id |-> tool_call.id, raised |-> res.raised, ok |-> res.ok, msgs |-> res.msgs]

\* The variant of lines 59-63 that skips the call without a message.
OnJsonError_silent(st, tool_call) == st

\* lines 59-63: arguments that are not JSON give one error message
OnJsonError(st, tool_call) ==
    [st EXCEPT !.value =
        Append(@, build_tool_call("Error: invalid JSON in arguments: " \o tool_call.arguments,
                                  40, tool_call))]

\* The variant of lines 65-72 without the `if not ok: continue`.
OnParsed_always_execute(st, tool_call, args) ==
    LET v == validate_tool_call_args(tool_call, args)
        e == execute(tool_call, args)
    IN  IF v.raised
        THEN [st EXCEPT !.raised = TRUE,
                        !.log = Append(@, LogEntry("validate", tool_call, v))]
        ELSE [st EXCEPT !.value = @ \o v.msgs \o e.msgs,
                        !.log = @ \o <<LogEntry("validate", tool_call, v),
                                       LogEntry("execute", tool_call, e)>>]

\* lines 65-72: validate's messages are appended and, when ok, execute's.
\* Only JSONDecodeError is caught: an exception of validate leaves the function.
OnParsed(st, tool_call, args) ==
    LET v == validate_tool_call_args(tool_call, args)
        e == execute(tool_call, args)
    IN  IF v.raised
        THEN [st EXCEPT !.raised = TRUE,
                        !.log = Append(@, LogEntry("validate", tool_call, v))]
        ELSE IF ~v.ok
        THEN [st EXCEPT !.value = @ \o v.msgs,
                        !.log = Append(@, LogEntry("validate", tool_call, v))]
        ELSE [st EXCEPT !.value = @ \o v.msgs \o e.msgs,
                        !.log = @ \o <<LogEntry("validate", tool_call, v),
                                       LogEntry("execute", tool_call, e)>>]

\* One iteration of the for loop of execute_tools_if_needed (lines 50-72): an
\* unregistered name is skipped, then json.loads, validate and execute.
ToolStep(tools, tool_call, st) ==
    LET tool == SelectSeq(tools, LAMBDA t : t = tool_call.name)
        args == json_loads(tool_call.arguments)
    IN  IF Len(tool) = 0 THEN st
        ELSE IF args.raised THEN OnJsonError(st, tool_call)
        ELSE OnParsed(st, tool_call, args.value)

\* The for loop (lines 48-72) over the unanswered calls, from the run st
RECURSIVE ExecuteWalk(_, _, _)
ExecuteWalk(tools, calls, st) ==
    IF Len(calls) = 0 \/ st.raised THEN st
    ELSE ExecuteWalk(tools, Tail(calls), ToolStep(tools, Head(calls), st))

\* execute_tools_if_needed(tool_context, messages) with the registry `tools`:
\* the list it returns, or the exception that leaves it
execute_tools_if_needed(tools, msgs) ==
    ExecuteWalk(tools, unanswered_in_turn(msgs), NewRun)

-----------------------------------------------------------------------------
(* core/routers/router_chat_completions.py and openai_wrappers/utils.py:     *)
(* what _chat_completions does with the conversation after authentication,   *)
(* and the two response generators.                                          *)

\* convert_messages_for_openai_format: a copy of each message in which the
\* doc-search content items are replaced by text items
convert_messages_for_openai_format(msgs) ==
    [i \in 1..Len(msgs) |->
        IF msgs[i].content = "items:doc_search"
        THEN [msgs[i] EXCEPT !.content = "items:text"]
        ELSE msgs[i]]

\* len("You are a helpful AI assistant."), the prompt when no server has props
SystemPromptLen == 31

\* compose_system_message: the System message built from the servers' props
compose_system_message(prompt_len) ==
    Content(ChatMessageSystem("system", prompt_len), "You are a helpful AI assistant.")

\* The variant that windows the conversation before the tool results are added.
final_messages_window_first(msgs, tool_res_messages, limit) ==
    convert_messages_for_openai_format(
        remove_trail_tool_calls(limit_messages(msgs, limit) \o tool_res_messages))

\* lines 135-144: post.messages as the upstream request carries it
final_messages(msgs, tool_res_messages, limit) ==
    convert_messages_for_openai_format(
        remove_trail_tool_calls(limit_messages(msgs \o tool_res_messages, limit)))

\* The text of a JSON document: whether it parses, how it is spaced, and the
\* value it denotes (an object with its fields, or an array).
JsonText(spacing, value) == [json |-> TRUE, spacing |-> spacing, value |-> value]
NotJson == [json |-> FALSE, spacing |-> "", value |-> [type |-> "none", fields |-> <<>>]]
JsonObject(fields) == [type |-> "object", fields |-> fields]
JsonArray == [type |-> "array", fields |-> <<>>]

\* json.dumps(value): the text with the default separators
json_dumps(value) == JsonText("default", value)

\* response_data["tool_res_messages"] = list
SetField(fields, list) ==
    [k \in DOMAIN fields \cup {"tool_res_messages"} |->
        IF k = "tool_res_messages" THEN list ELSE fields[k]]

\* The variant that adds the field whatever the length of the list.
proxy_non_stream_response_always(response_text, tool_res_messages) ==
    IF ~response_text.json
    THEN Returned(<<json_dumps(JsonObject(
             [error |-> "Failed to parse response from LLM proxy"]))>>)
    ELSE IF response_text.value.type # "object" THEN Raised
    ELSE Returned(<<json_dumps(JsonObject(
             SetField(response_text.value.fields, tool_res_messages)))>>)

\* proxy_non_stream_response, lines 80-94: what the generator yields for the
\* upstream's body response_text.  A body that is not JSON gives the error
\* object; the field is set only when the list is not empty, and setting it
\* on a value that is not an object raises TypeError.
proxy_non_stream_response(response_text, tool_res_messages) ==
    IF ~response_text.json
    THEN Returned(<<json_dumps(JsonObject(
             [error |-> "Failed to parse response from LLM proxy"]))>>)
    ELSE IF Len(tool_res_messages) = 0 THEN Returned(<<json_dumps(response_text.value)>>)
    ELSE IF response_text.value.type # "object" THEN Raised
    ELSE Returned(<<json_dumps(JsonObject(
             SetField(response_text.value.fields, tool_res_messages)))>>)

\* The frame of lines 46-56 (the list holds each message's model_dump())
ToolResFrame(tool_res_messages) ==
    [object |-> "tool_res_messages", tool_res_messages |-> tool_res_messages]

\* The variant that emits the frame also for an empty list.
LeadingFrames_always(tool_res_messages) == <<ToolResFrame(tool_res_messages)>>

\* proxy_stream_response, lines 45-57: what is yielded before the upstream post
LeadingFrames(tool_res_messages) ==
    IF Len(tool_res_messages) > 0 THEN <<ToolResFrame(tool_res_messages)>> ELSE <<>>

\* The variant of lines 64-66 that puts the chunk before those already relayed.
RelayChunk_prepend(out, chunk) == IF chunk.data # "" THEN <<chunk>> \o out ELSE out

\* lines 64-66: `if chunk: yield chunk`
RelayChunk(out, chunk) == IF chunk.data # "" THEN Append(out, chunk) ELSE out

-----------------------------------------------------------------------------
(* SpecPipe: one chat-completion request in detail, from the return of       *)
(* _check_auth with an AuthItem to the end of the response generator.        *)

MaxCalls == 2
MaxChunks == 2

\* The registry as shipped (TOOLS = [], the ToolPingPong line is commented
\* out), and with ToolPingPong registered.
Registries == {<<>>, <<"ping_pong">>}

UnknownToolPolicies == {"permissive", "strict"}

\* (function.name, function.arguments) of the tool calls of the conversations
CallKinds ==
    {<<"ping_pong", "ping">>, <<"ping_pong", "pong">>, <<"ping_pong", "not_str">>,
     <<"ping_pong", "malformed">>, <<"ping_pong", "non_object">>, <<"other_tool", "ping">>}

\* The k-th call of a message has the id CallIdAt[k]
CallIdAt == <<"a", "b", "c", "d">>

PipeCallLists ==
    {[k \in 1..Len(ks) |-> ToolCallFn(CallIdAt[k], ks[k][1], ks[k][2])] :
        ks \in SeqsUpTo(CallKinds, MaxCalls)}

PipeAssistants ==
    {Content(ChatMessageAssistant(8, IF Len(cs) = 0 THEN None ELSE Some(cs)), "text") :
        cs \in PipeCallLists}

PipeSystem == Content(ChatMessageSystem("system", 4), "text")
PipeUser == Content(ChatMessageUser(3), "text")
PipeUserDoc == Content(ChatMessageUser(12), "items:doc_search")
PipeToolA == Content(ChatMessageTool(4, "a"), "text")

\* The conversations of the requests: what precedes the Assistant message,
\* the Assistant message, and what follows it; and the empty conversation.
Conversations ==
    {<<>>} \cup
    {pre \o <<m>> \o suf :
        pre \in {<<>>, <<PipeUser>>, <<PipeSystem, PipeUser>>, <<PipeUserDoc>>},
        m \in PipeAssistants,
        suf \in {<<>>, <<PipeToolA>>, <<PipeUser>>}}

\* What the capability servers' tools-execute returned, chained
McplResults == {<<>>, <<Content(ChatMessageTool(4, "b"), "remote result")>>}

\* The bodies the upstream gives to a non-streaming request
UpstreamTexts ==
    {NotJson,
     JsonText("compact", JsonObject([id |-> "chatcmpl"])),
     JsonText("default", JsonObject([id |-> "chatcmpl"])),
     JsonText("default", JsonArray)}

\* The chunks the upstream gives to a streaming request, as response.content yields them
Chunk(data) == [object |-> "chat.completion.chunk", data |-> data]

UpstreamChunks == SeqsUpTo({Chunk("c1"), Chunk("c2")}, MaxChunks)

PipeSteps ==
    <<"authentication", "composition", "local_tools", "remote_tools", "windowing",
      "pruning", "upstream_request">>

InitPipe ==
    /\ TOOLS \in Registries
    /\ unknown_tool_policy \in UnknownToolPolicies
    /\ \E conv \in Conversations, stream \in BOOLEAN :
          pipe = [pc |-> "get_servers", stream |-> stream, post_messages |-> conv,
                  messages |-> conv, local |-> <<>>, remote |-> <<>>,
                  tool_res_messages |-> <<>>, sent |-> None, out |-> <<>>,
                  arrived |-> <<>>, pending |-> <<>>, body |-> None,
                  status |-> 0, failed_from |-> "", steps |-> <<"authentication">>,
                  client |-> "connected", conn |-> "none"]
    /\ post_messages = <<>> /\ messages = <<>> /\ arg_after = None
    /\ tok_limit \in {3, 100} /\ chat_calls = <<>> /\ prev_messages = <<>>
    /\ tool_run = <<>>
    /\ InitAuthIdle
    /\ InitFanIdle
    /\ InitMcplIdle

\* Line 125: execute_tools_if_needed runs (no await inside with these tools);
\* an exception leaves _chat_completions (the framework answers 500), else
\* mcpl_tools_execute is awaited.
ResolveLocal(q) ==
    LET res == execute_tools_if_needed(TOOLS, q.messages)
    IN  IF res.raised
        THEN [q EXCEPT !.pc = "failed", !.status = 500, !.failed_from = "ResolvingTools"]
        ELSE [q EXCEPT !.pc = "tools_execute", !.local = res.value,
                       !.steps = Append(@, "local_tools")]

\* get_active_servers returned; lines 119-125
PipeServersReturn ==
    /\ pipe.pc = "get_servers"
    /\ pipe' = IF Len(pipe.messages) > 0 /\ ~IsSystem(pipe.messages[1])
               THEN [pipe EXCEPT !.pc = "tools_props"]
               ELSE ResolveLocal(pipe)
    /\ UNCHANGED <<TOOLS, unknown_tool_policy, tool_run>>
    /\ UNCHANGED <<authVars, chatVars, fanVars, mcplVars>>

\* get_mcpl_tool_props returned; lines 122-125
PipePropsReturn(prompt_len) ==
    /\ pipe.pc = "tools_props"
    /\ pipe' = ResolveLocal(
                   [pipe EXCEPT !.messages = <<compose_system_message(prompt_len)>> \o @,
                                !.steps = Append(@, "composition")])
    /\ UNCHANGED <<TOOLS, unknown_tool_policy, tool_run>>
    /\ UNCHANGED <<authVars, chatVars, fanVars, mcplVars>>

\* mcpl_tools_execute returned; lines 131-155: the results are joined, the
\* conversation is windowed, pruned and converted, and the StreamingResponse
\* is returned (status 200).
PipeExecuteReturn(mcpl) ==
    /\ pipe.pc = "tools_execute"
    /\ pipe' = [pipe EXCEPT !.pc = "forwarding", !.status = 200,
                            !.remote = mcpl,
                            !.tool_res_messages = pipe.local \o mcpl,
                            !.messages = final_messages(pipe.messages, pipe.local \o mcpl, tok_limit),
                            !.steps = @ \o <<"remote_tools", "windowing", "pruning">>]
    /\ UNCHANGED <<TOOLS, unknown_tool_policy, tool_run>>
    /\ UNCHANGED <<authVars, chatVars, fanVars, mcplVars>>

\* The response generator starts: the leading frame of a streaming request,
\* then the post to the upstream (lines 45-63, 71-78).
PipeForward ==
    /\ pipe.pc = "forwarding"
    /\ pipe' = [pipe EXCEPT !.pc = "upstream",
                            !.out = IF pipe.stream THEN LeadingFrames(pipe.tool_res_messages)
                                    ELSE <<>>,
                            !.sent = Some(pipe.messages),
                            !.conn = "open",
                            !.steps = Append(@, "upstream_request")]
    /\ UNCHANGED <<TOOLS, unknown_tool_policy, tool_run>>
    /\ UNCHANGED <<authVars, chatVars, fanVars, mcplVars>>

\* The post raises (the upstream cannot be reached)
PipeUpstreamFails ==
    /\ pipe.pc = "upstream"
    /\ pipe' = [pipe EXCEPT !.pc = "failed", !.failed_from = "Forwarding", !.conn = "released"]
    /\ UNCHANGED <<TOOLS, unknown_tool_policy, tool_run>>
    /\ UNCHANGED <<authVars, chatVars, fanVars, mcplVars>>

\* The upstream answers a streaming request: its chunks will arrive
PipeStreamAnswer(chunks) ==
    /\ pipe.pc = "upstream" /\ pipe.stream
    /\ pipe.client = "connected"
    /\ pipe' = [pipe EXCEPT !.pc = "relaying", !.pending = chunks]
    /\ UNCHANGED <<TOOLS, unknown_tool_policy, tool_run>>
    /\ UNCHANGED <<authVars, chatVars, fanVars, mcplVars>>

\* One chunk arrives and is relayed (lines 64-66)
PipeRelayChunk ==
    /\ pipe.pc = "relaying" /\ Len(pipe.pending) > 0
    /\ pipe.client = "connected"
    /\ pipe' = [pipe EXCEPT !.pending = Tail(@),
                            !.arrived = Append(@, Head(pipe.pending)),
                            !.out = RelayChunk(@, Head(pipe.pending))]
    /\ UNCHANGED <<TOOLS, unknown_tool_policy, tool_run>>
    /\ UNCHANGED <<authVars, chatVars, fanVars, mcplVars>>

\* The upstream's stream ends, or breaks
PipeRelayEnd(ok) ==
    /\ pipe.pc = "relaying"
    /\ ok => Len(pipe.pending) = 0
    /\ pipe' = IF ok THEN [pipe EXCEPT !.pc = "done", !.conn = "released"]
               ELSE [pipe EXCEPT !.pc = "failed", !.failed_from = "Relaying",
                                 !.conn = "released"]
    /\ UNCHANGED <<TOOLS, unknown_tool_policy, tool_run>>
    /\ UNCHANGED <<authVars, chatVars, fanVars, mcplVars>>

\* The upstream answers a non-streaming request with the body response_text
\* (lines 80-94)
PipeBodyAnswer(response_text) ==
    /\ pipe.pc = "upstream" /\ ~pipe.stream
    /\ pipe.client = "connected"
    /\ LET res == proxy_non_stream_response(response_text, pipe.tool_res_messages)
       IN  pipe' = IF res.raised
                   THEN [pipe EXCEPT !.pc = "failed", !.failed_from = "Relaying",
                                     !.body = Some(response_text), !.conn = "released"]
                   ELSE [pipe EXCEPT !.pc = "done", !.body = Some(response_text),
                                     !.out = res.value, !.conn = "released"]
    /\ UNCHANGED <<TOOLS, unknown_tool_policy, tool_run>>
    /\ UNCHANGED <<authVars, chatVars, fanVars, mcplVars>>

\* The calling client disconnects while the generator is inside its
\* `async with http_session.post(...)` block (lines 59-66, 74-94)
PipeClientDisconnect ==
    /\ pipe.pc \in {"upstream", "relaying"}
    /\ pipe.client = "connected"
    /\ pipe' = [pipe EXCEPT !.client = "gone"]
    /\ UNCHANGED <<TOOLS, unknown_tool_policy, tool_run>>
    /\ UNCHANGED <<authVars, chatVars, fanVars, mcplVars>>

\* The variant in which the response is not held by `async with`: the
\* generator ends and the connection stays open.
CancelGenerator_leaks(q) == [q EXCEPT !.pc = "cancelled", !.pending = <<>>]

\* The generator is ended at its suspension point inside the `async with`
\* block: the block is left, which gives the upstream request up and releases
\* its connection; nothing follows the block.
CancelGenerator(q) == [q EXCEPT !.pc = "cancelled", !.pending = <<>>, !.conn = "released"]

\* StreamingResponse ends the generator of a client that has gone
PipeCancel ==
    /\ pipe.pc \in {"upstream", "relaying"}
    /\ pipe.client = "gone"
    /\ pipe' = CancelGenerator(pipe)
    /\ UNCHANGED <<TOOLS, unknown_tool_policy, tool_run>>
    /\ UNCHANGED <<authVars, chatVars, fanVars, mcplVars>>

NextPipe ==
    \/ PipeServersReturn
    \/ PipePropsReturn(SystemPromptLen)
    \/ \E mcpl \in McplResults : PipeExecuteReturn(mcpl)
    \/ PipeForward
    \/ PipeUpstreamFails
    \/ \E chunks \in UpstreamChunks : PipeStreamAnswer(chunks)
    \/ PipeRelayChunk
    \/ \E ok \in BOOLEAN : PipeRelayEnd(ok)
    \/ \E response_text \in UpstreamTexts : PipeBodyAnswer(response_text)
    \/ PipeClientDisconnect
    \/ PipeCancel

SpecPipe == InitPipe /\ [][NextPipe]_vars

\* A cancellation that is due is delivered: the event loop runs the callback
\* that ends the generator.
SpecPipeLive == SpecPipe /\ WF_vars(PipeCancel)

\* ---- vocabulary of the claims on the pipeline

\* Local tool resolution is over (it returned or raised)
LocalOver == pipe.pc \notin {"get_servers", "tools_props"}
LocalReturned == LocalOver /\ pipe.failed_from # "ResolvingTools"

\* The conversation the request came with, and its last Assistant message
AssistantIdx(msgs) == {i \in 1..Len(msgs) : IsAssistant(msgs[i])}
LastAssistantCalls(msgs) ==
    IF AssistantIdx(msgs) = {} THEN <<>>
    ELSE CallsOf(msgs[CHOOSE i \in AssistantIdx(msgs) : \A j \in AssistantIdx(msgs) : j <= i])

\* A call of the conversation no Tool message of the conversation answers
UnansweredIn(msgs, c) == c.id \notin ToolCallIdsIn(msgs)

\* The calls of the current turn (after the last User message) that are unanswered
TurnCalls(msgs) ==
    SelectSeq(AllCalls(messages_since_last_user_msg(msgs)), LAMBDA c : UnansweredIn(msgs, c))

\* The messages of a list that answer call c
AnswersTo(list, c) == SelectSeq(list, LAMBDA m : m.tool_call_id = c.id)

\* C11: a request whose last Assistant message holds an unanswered call to
\* ping_pong with the arguments {"message": "ping"} gets exactly one synthetic
\* Tool message for it, with the content "pong" and the call's id, and it is
\* there before the upstream request is made.
C11_PingYieldsPong ==
    LocalOver =>
        \A k \in 1..Len(LastAssistantCalls(pipe.post_messages)) :
            LET c == LastAssistantCalls(pipe.post_messages)[k]
            IN  (c.name = "ping_pong" /\ c.arguments = "ping"
                    /\ UnansweredIn(pipe.post_messages, c))
                => /\ Len(AnswersTo(pipe.local, c)) = 1
                   /\ AnswersTo(pipe.local, c)[1].content = "pong"

C20_UnknownToolPolicy ==
    LocalReturned =>
        \A k \in 1..Len(TurnCalls(pipe.post_messages)) :
            LET c == TurnCalls(pipe.post_messages)[k]
            IN  (\A t \in 1..Len(TOOLS) : TOOLS[t] # c.name)
                    => Len(AnswersTo(pipe.local, c)) =
                           (IF unknown_tool_policy = "strict" THEN 1 ELSE 0)

\* The upstream's body of a finished non-streaming request
BodyOf(q) == Get(q.body)

\* C12 as stated: a non-streaming request with no pending tool call returns
\* the upstream's JSON body with the field tool_res_messages added, holding
\* the empty list.
C12_EmptyFieldAdded ==
    (pipe.pc = "done" /\ ~pipe.stream /\ Len(pipe.tool_res_messages) = 0
        /\ BodyOf(pipe).json /\ BodyOf(pipe).value.type = "object")
        => /\ Len(pipe.out) = 1
           /\ pipe.out[1].value =
                  JsonObject(SetField(BodyOf(pipe).value.fields, <<>>))

\* C12 as amended: a non-streaming request for which no tool result was
\* produced returns the upstream's JSON value re-serialized, with no field
\* added; a body that is not JSON gives the parse-error object.
C12_BodyWithoutField ==
    (pipe.pc = "done" /\ ~pipe.stream /\ Len(pipe.tool_res_messages) = 0)
        => /\ Len(pipe.out) = 1
           /\ pipe.out[1].json /\ pipe.out[1].spacing = "default"
           /\ IF BodyOf(pipe).json
              THEN pipe.out[1].value = BodyOf(pipe).value
              ELSE pipe.out[1].value =
                       JsonObject([error |-> "Failed to parse response from LLM proxy"])

\* C12 witness: a compact JSON object came back; the caller got the same
\* value, without a tool_res_messages field, in another spacing.
C12_Witness ==
    /\ pipe.pc = "done" /\ ~pipe.stream /\ Len(pipe.tool_res_messages) = 0
    /\ Len(TurnCalls(pipe.post_messages)) = 0
    /\ BodyOf(pipe) = JsonText("compact", JsonObject([id |-> "chatcmpl"]))
    /\ pipe.out[1].value = BodyOf(pipe).value
    /\ "tool_res_messages" \notin DOMAIN pipe.out[1].value.fields
    /\ pipe.out[1] # BodyOf(pipe)

\* The generator of a streaming request has started
Streaming == pipe.stream /\ IsSome(pipe.sent)

\* C13: a streaming request emits one tool_res_messages frame first when tool
\* results were produced and none otherwise, and then the upstream's chunks
\* in arrival order, each once and unmodified.
C13_FrameThenChunks ==
    Streaming =>
        pipe.out = (IF Len(pipe.tool_res_messages) > 0
                    THEN <<[object |-> "tool_res_messages",
                            tool_res_messages |-> pipe.tool_res_messages]>>
                    ELSE <<>>) \o pipe.arrived

\* C13 witness: tool results were produced and two different chunks arrived;
\* the caller has the frame and then the two chunks.
C13_Witness ==
    /\ Streaming /\ pipe.pc = "done"
    /\ Len(pipe.tool_res_messages) > 0
    /\ pipe.arrived = <<Chunk("c2"), Chunk("c1")>>
    /\ Len(pipe.out) = 3 /\ pipe.out[1].object = "tool_res_messages"
    /\ pipe.out[2] = Chunk("c2") /\ pipe.out[3] = Chunk("c1")

\* C14: when tool resolution produced a result, the caller of a finished
\* request has the whole list, local results then the servers' results: in
\* the leading frame when streaming, in the field tool_res_messages otherwise.
C14_ResultsSurfaced ==
    (pipe.pc = "done" /\ Len(pipe.local \o pipe.remote) > 0)
        => /\ Len(pipe.out) > 0
           /\ IF pipe.stream
              THEN pipe.out[1] = ToolResFrame(pipe.local \o pipe.remote)
              ELSE /\ pipe.out[1].value.type = "object"
                   /\ "tool_res_messages" \in DOMAIN pipe.out[1].value.fields
                   /\ pipe.out[1].value.fields.tool_res_messages = pipe.local \o pipe.remote

\* The position of a step in the order of the pipeline
StepNo(step) == CHOOSE k \in 1..Len(PipeSteps) : PipeSteps[k] = step

\* The steps taken so far follow the order of the pipeline, and the upstream
\* request comes after local and remote tool resolution, windowing and pruning.
StepsInOrder ==
    /\ pipe.steps[1] = "authentication"
    /\ \A i, j \in 1..Len(pipe.steps) :
          i < j => StepNo(pipe.steps[i]) < StepNo(pipe.steps[j])
    /\ IsSome(pipe.sent) <=> pipe.steps[Len(pipe.steps)] = "upstream_request"
    /\ IsSome(pipe.sent) =>
          \A k \in 3..Len(PipeSteps) : \E i \in 1..Len(pipe.steps) : pipe.steps[i] = PipeSteps[k]

\* The conversation after composition, with the tool results of the request
Injected ==
    (IF \E i \in 1..Len(pipe.steps) : pipe.steps[i] = "composition"
     THEN <<compose_system_message(SystemPromptLen)>> ELSE <<>>)
        \o pipe.post_messages \o pipe.local \o pipe.remote

Composed == pipe.pc = "tools_execute"

\* C27: after ComposingSystemPrompt the conversation of every request, the
\* one with an empty message list included, begins with a System/Developer
\* message: one synthesized message is prepended when the first message is
\* not System/Developer; otherwise the conversation is unchanged and no
\* tools-props request was made.
C27_LeadsWithSystem ==
    Composed =>
        /\ Len(pipe.messages) > 0 /\ IsSystem(pipe.messages[1])
        /\ IF Len(pipe.post_messages) > 0 /\ IsSystem(pipe.post_messages[1])
           THEN /\ pipe.messages = pipe.post_messages
                /\ \A i \in 1..Len(pipe.steps) : pipe.steps[i] # "composition"
           ELSE pipe.messages = <<compose_system_message(SystemPromptLen)>> \o pipe.post_messages

-----------------------------------------------------------------------------
(* SpecTools: one call of execute_tools_if_needed (core/tools/tools.py), an  *)
(* action for the collection of the current turn, one for each iteration of *)
(* the for loop, one for the return.                                        *)

\* The conversations given to execute_tools_if_needed: two Assistant
\* messages, the first with at most one call (id "a"), the second with up to
\* MaxCalls calls (ids "e", "f", ...), and what stands before, between and
\* after them.
TurnCallKinds ==
    CallKinds \cup {<<"ping_pong", "truncated">>}

LaterIdAt == <<"e", "f", "g", "h">>

TurnAssistant(ids, ks) ==
    Content(ChatMessageAssistant(8, IF Len(ks) = 0 THEN None
                                    ELSE Some([k \in 1..Len(ks) |->
                                                 ToolCallFn(ids[k], ks[k][1], ks[k][2])])),
            "text")

PipeToolE == Content(ChatMessageTool(4, "e"), "text")
PipeToolF == Content(ChatMessageTool(4, "f"), "text")

ToolConversations ==
    {pre \o <<TurnAssistant(CallIdAt, k1)>> \o mid \o <<TurnAssistant(LaterIdAt, k2)>> \o suf :
        pre \in {<<>>, <<PipeToolE>>},
        k1 \in SeqsUpTo(TurnCallKinds, 1),
        mid \in {<<>>, <<PipeUser>>, <<PipeToolA>>},
        k2 \in SeqsUpTo(TurnCallKinds, MaxCalls),
        suf \in {<<>>, <<PipeToolE>>, <<PipeToolF>>, <<PipeUser>>}}

InitTools ==
    /\ TOOLS \in Registries
    /\ \E conv \in ToolConversations :
          tool_run = [pc |-> "start", messages |-> conv, unanswered |-> <<>>,
                      pending |-> <<>>, st |-> NewRun]
    /\ unknown_tool_policy = "permissive" /\ pipe = <<>>
    /\ InitAuthIdle
    /\ InitChatIdle
    /\ InitFanIdle
    /\ InitMcplIdle

\* lines 41-49: the messages since the last User message are collected and
\* get_unanswered_tool_calls is called on them
ToolsCollect ==
    /\ tool_run.pc = "start"
    /\ tool_run' = [tool_run EXCEPT !.pc = "loop",
                                    !.unanswered = unanswered_in_turn(tool_run.messages),
                                    !.pending = unanswered_in_turn(tool_run.messages)]
    /\ UNCHANGED <<TOOLS, unknown_tool_policy, pipe>>
    /\ UNCHANGED <<authVars, chatVars, fanVars, mcplVars>>

\* lines 49-72: one iteration of the for loop, on the next unanswered call
ToolsStep ==
    /\ tool_run.pc = "loop"
    /\ Len(tool_run.pending) > 0
    /\ LET st == ToolStep(TOOLS, Head(tool_run.pending), tool_run.st)
       IN  tool_run' = [tool_run EXCEPT !.pc = IF st.raised THEN "raised" ELSE "loop",
                                        !.pending = Tail(@),
                                        !.st = st]
    /\ UNCHANGED <<TOOLS, unknown_tool_policy, pipe>>
    /\ UNCHANGED <<authVars, chatVars, fanVars, mcplVars>>

\* line 74: return tool_res_messages
ToolsReturn ==
    /\ tool_run.pc = "loop"
    /\ Len(tool_run.pending) = 0
    /\ tool_run' = [tool_run EXCEPT !.pc = "returned"]
    /\ UNCHANGED <<TOOLS, unknown_tool_policy, pipe>>
    /\ UNCHANGED <<authVars, chatVars, fanVars, mcplVars>>

NextTools == ToolsCollect \/ ToolsStep \/ ToolsReturn

SpecTools == InitTools /\ [][NextTools]_vars

(* ---- claims on SpecTools ---- *)

\* The index of the last User message, 0 when there is none
LastUserIdx(msgs) ==
    IF \E i \in 1..Len(msgs) : IsUser(msgs[i])
    THEN CHOOSE i \in 1..Len(msgs) :
            IsUser(msgs[i]) /\ \A j \in (i + 1)..Len(msgs) : ~IsUser(msgs[j])
    ELSE 0

\* The messages strictly after the last User message, and those up to it
CurrentTurn(msgs) == SubSeq(msgs, LastUserIdx(msgs) + 1, Len(msgs))
EarlierTurns(msgs) == SubSeq(msgs, 1, LastUserIdx(msgs))

Collected == tool_run.pc # "start"
RunReturned == tool_run.pc = "returned"
Registered(c) == \E i \in 1..Len(TOOLS) : TOOLS[i] = c.name
IdsOf(calls) == {calls[i].id : i \in 1..Len(calls)}
ResultsFor(c) == SelectSeq(tool_run.st.value, LAMBDA m : m.tool_call_id = c.id)
LoggedFor(c) == SelectSeq(tool_run.st.log, LAMBDA e : e.id = c.id)

C23_OnlyCurrentTurn ==
    Collected =>
        /\ IdsOf(tool_run.unanswered) \subseteq IdsOf(AllCalls(CurrentTurn(tool_run.messages)))
        /\ \A i \in 1..Len(AllCalls(EarlierTurns(tool_run.messages))) :
              LET c == AllCalls(EarlierTurns(tool_run.messages))[i]
              IN  Len(ResultsFor(c)) = 0 /\ Len(LoggedFor(c)) = 0
        /\ LastUserIdx(tool_run.messages) = 0 =>
              tool_run.unanswered =
                  SelectSeq(AllCalls(tool_run.messages),
                            LAMBDA c : c.id \notin ToolCallIdsIn(tool_run.messages))

\* C23 witness: an unanswered ping call stands before the last User message
\* and another after it; only the second was executed.
C23_Witness ==
    /\ RunReturned
    /\ Len(AllCalls(EarlierTurns(tool_run.messages))) = 1
    /\ AllCalls(EarlierTurns(tool_run.messages))[1].arguments = "ping"
    /\ Registered(AllCalls(EarlierTurns(tool_run.messages))[1])
    /\ AllCalls(EarlierTurns(tool_run.messages))[1].id \notin ToolCallIdsIn(tool_run.messages)
    /\ Len(tool_run.st.value) = 1
    /\ tool_run.st.value[1].tool_call_id = "e" /\ tool_run.st.value[1].content = "pong"

\* The iteration of the loop on the call c: the step from a state where c is
\* the next unanswered call
StepOn(c) == tool_run.pc = "loop" /\ Len(tool_run.pending) > 0 /\ Head(tool_run.pending) = c
             /\ tool_run' # tool_run

BadJson(c) == Registered(c) /\ c.arguments \in NotJsonTexts

\* C24: for an unanswered call to a registered tool whose arguments are not
\* JSON, the iteration appends exactly one Tool message with the call's id and
\* a content naming the payload, calls neither validate nor execute, and goes
\* on to the next call.
C24_BadJsonGivesOneError ==
    [][\A c \in IdsOf(tool_run.pending) \X NotJsonTexts :
          LET call == Head(tool_run.pending)
          IN  (StepOn(call) /\ BadJson(call) /\ call.id = c[1] /\ call.arguments = c[2]) =>
                  /\ Len(tool_run'.st.value) = Len(tool_run.st.value) + 1
                  /\ SubSeq(tool_run'.st.value, 1, Len(tool_run.st.value)) = tool_run.st.value
                  /\ LET m == tool_run'.st.value[Len(tool_run'.st.value)]
                     IN  /\ m.role = "tool" /\ m.tool_call_id = c[1]
                         /\ m.content = "Error: invalid JSON in arguments: " \o c[2]
                  /\ tool_run'.st.log = tool_run.st.log
                  /\ ~tool_run'.st.raised
                  /\ tool_run'.pc = "loop" /\ tool_run'.pending = Tail(tool_run.pending)]_vars

\* C24 witness: a call with arguments that are not JSON came before a ping
\* call; the run returned the error message and then the pong, and only the
\* ping call reached validate and execute.
C24_Witness ==
    /\ RunReturned
    /\ Len(tool_run.unanswered) = 2
    /\ BadJson(tool_run.unanswered[1])
    /\ Len(tool_run.st.value) = 2
    /\ tool_run.st.value[1].tool_call_id = tool_run.unanswered[1].id
    /\ tool_run.st.value[1].content = "Error: invalid JSON in arguments: truncated"
    /\ tool_run.st.value[2].content = "pong"
    /\ Len(LoggedFor(tool_run.unanswered[1])) = 0
    /\ Len(LoggedFor(tool_run.unanswered[2])) = 2

\* The unanswered calls the loop has been through
Processed == SubSeq(tool_run.unanswered, 1, Len(tool_run.unanswered) - Len(tool_run.pending))

\* C25: for an unanswered call to a registered tool with parseable arguments
\* execute is called if and only if validate returned ok=True; when validate
\* returns ok=False its messages are appended and execute is not called.
C25_ExecuteIffValid ==
    Collected =>
        LET log == tool_run.st.log
        IN  /\ \A i \in 1..Len(log) :
                  /\ log[i].fn = "execute" =>
                        /\ i > 1 /\ log[i - 1].fn = "validate" /\ log[i - 1].id = log[i].id
                        /\ log[i - 1].ok /\ ~log[i - 1].raised
                  /\ (log[i].fn = "validate" /\ log[i].ok) =>
                        /\ i < Len(log) /\ log[i + 1].fn = "execute" /\ log[i + 1].id = log[i].id
                  /\ (log[i].fn = "validate" /\ ~log[i].ok /\ ~log[i].raised) =>
                        /\ Len(log[i].msgs) > 0
                        /\ SelectSeq(tool_run.st.value,
                                     LAMBDA m : m.tool_call_id = log[i].id) = log[i].msgs
            /\ \A k \in 1..Len(Processed) :
                  (Registered(Processed[k]) /\ Processed[k].arguments \notin NotJsonTexts) =>
                      Len(SelectSeq(LoggedFor(Processed[k]), LAMBDA e : e.fn = "validate")) = 1

\* C25 witness: validate refused one call (its message is in the results and
\* execute was not called for it) and accepted another, which was executed.
C25_Witness ==
    /\ RunReturned
    /\ Len(tool_run.st.log) = 3
    /\ tool_run.st.log[1].fn = "validate" /\ ~tool_run.st.log[1].ok
    /\ tool_run.st.log[2].fn = "validate" /\ tool_run.st.log[2].ok
    /\ tool_run.st.log[3].fn = "execute"
    /\ Len(tool_run.st.value) = 2
    /\ tool_run.st.value[1].content = "Error: Expected message 'ping'"
    /\ tool_run.st.value[2].content = "pong"

\* The position of the call with the given id among the calls of the conversation
CallPos(id) ==
    CHOOSE k \in 1..Len(AllCalls(tool_run.messages)) : AllCalls(tool_run.messages)[k].id = id

\* C26: the Tool messages returned are ordered by the position of their call
\* in the conversation, validate is called before execute for one call, and
\* every message an iteration appends has the tool_call_id of its call.
C26_ResultsInCallOrder ==
    /\ [](Collected =>
            /\ \A i \in 1..Len(tool_run.st.value) :
                  tool_run.st.value[i].tool_call_id \in IdsOf(Processed)
            /\ \A i, j \in 1..Len(tool_run.st.value) :
                  i < j => CallPos(tool_run.st.value[i].tool_call_id)
                               <= CallPos(tool_run.st.value[j].tool_call_id)
            /\ \A i, j \in 1..Len(tool_run.st.log) :
                  (i < j /\ tool_run.st.log[i].id = tool_run.st.log[j].id) =>
                      tool_run.st.log[i].fn = "validate" /\ tool_run.st.log[j].fn = "execute")
    /\ [][\A id \in IdsOf(tool_run.pending) :
            (StepOn(Head(tool_run.pending)) /\ Head(tool_run.pending).id = id
                /\ ~tool_run'.st.raised) =>
                /\ Len(tool_run'.st.value) >= Len(tool_run.st.value)
                /\ SubSeq(tool_run'.st.value, 1, Len(tool_run.st.value)) = tool_run.st.value
                /\ \A i \in (Len(tool_run.st.value) + 1)..Len(tool_run'.st.value) :
                      tool_run'.st.value[i].tool_call_id = id]_vars

\* C26 witness: calls of two Assistant messages were resolved; the three
\* results are in the order of the calls.
C26_Witness ==
    /\ RunReturned
    /\ Len(tool_run.st.value) = 3
    /\ tool_run.st.value[1].tool_call_id = "a"
    /\ tool_run.st.value[2].tool_call_id = "e"
    /\ tool_run.st.value[3].tool_call_id = "f"
    /\ tool_run.st.value[3].content = "pong"

-----------------------------------------------------------------------------
(* mcpl/servers.py, mcpl/repositories/repo_mcpl_servers.py,                 *)
(* mcpl/routers/router_mcpl.py: the mcpl_servers table, the update of a     *)
(* user's servers, get_active_servers, and the requests that fan out to the *)
(* active servers (router_caps.py: tools; router_chat_completions.py:       *)
(* tools-props and tools-execute).                                          *)
(* An address is a record host, tail: the text host + tail, where tail is   *)
(* "", "/" or "/v1".                                                        *)

MaxUserServers == 2
MaxUpdates == 2

Address(host, tail) == [host |-> host, tail |-> tail]

\* line 167 of router_mcpl.py:
\* address if address.endswith("/v1") else (address.rstrip("/") + "/v1")
normalize_address(address) ==
    IF address.tail = "/v1" THEN address ELSE Address(address.host, "/v1")

MCPLServer(user_id, address, is_active) ==
    [user_id |-> user_id, address |-> address, is_active |-> is_active]

\* MCPLServerItem of an update request
MCPLServerItem(address, is_active) == [address |-> address, is_active |-> is_active]

RequestAddresses == {Address("a", ""), Address("a", "/v1"), Address("b", "/")}
RequestItems == {MCPLServerItem(a, act) : a \in RequestAddresses, act \in BOOLEAN}
UpdateRequests == SeqsUpTo(RequestItems, MaxUserServers)

\* DEFAULT_MCPL_SERVERS of the deployment (core/globals.py)
DefaultConfigs ==
    {<<>>, <<Address("a", "/v1")>>, <<Address("a", "/v1"), Address("d", "/v1")>>}

\* get_user_servers_sync: SELECT ... WHERE user_id = ?, in row order
get_user_servers(table, user_id) ==
    SelectSeq(table, LAMBDA s : s.user_id = user_id)

\* update_user_servers_sync: DELETE the user's rows, INSERT the new ones
update_user_servers(table, user_id, new_servers) ==
    SelectSeq(table, LAMBDA s : s.user_id # user_id)
        \o [i \in 1..Len(new_servers) |->
                MCPLServer(user_id, new_servers[i].address, new_servers[i].is_active)]

\* The variant that returns the extended list unfiltered.
get_active_servers_unfiltered(table, defaults, user_id) ==
    get_user_servers(table, user_id)
        \o [i \in 1..Len(defaults) |-> MCPLServer(-1, defaults[i], TRUE)]

\* get_active_servers: the user's rows, extended by the defaults, then
\* filtered by is_active
get_active_servers(table, defaults, user_id) ==
    LET user_servers == get_user_servers(table, user_id)
        default_servers == [i \in 1..Len(defaults) |-> MCPLServer(-1, defaults[i], TRUE)]
    IN  SelectSeq(user_servers \o default_servers, LAMBDA s : s.is_active)

\* The request a task of the fan-out sends to one server: GET /tools,
\* GET /tools-props, or POST /tools-execute with its json payload
HttpRequest(op, server, payload) == [op |-> op, server |-> server, payload |-> payload]

\* The variant that posts the conversation with the local results appended.
execute_payload_with_results(user_id, msgs, tool_res_messages) ==
    [user_id |-> user_id, messages |-> msgs \o tool_res_messages]

\* lines 127-129 with wrappers.py 117-120: {"user_id": ..., "messages": ...}
execute_payload(user_id, msgs, tool_res_messages) ==
    [user_id |-> user_id, messages |-> msgs]

McplConversations == {<<>>, <<PipeUser>>, <<PipeSystem, PipeUser>>}
LocalResults == {<<>>, <<PipeToolA>>}

NoRequest ==
    [pc |-> "idle", kind |-> "", user_id |-> 0, post_messages |-> <<>>,
     messages |-> <<>>, servers |-> <<>>, op |-> "", payload |-> None,
     todo |-> <<>>, sent |-> <<>>, tool_res_messages |-> <<>>]

InitMcpl ==
    /\ \E defaults \in DefaultConfigs :
          mcpl_req = [table |-> <<>>, defaults |-> defaults, updates |-> 0] @@ NoRequest
    /\ InitAuthIdle
    /\ InitChatIdle
    /\ InitFanIdle
    /\ InitPipeIdle

\* POST /v1/mcpl-servers-update of user u (authenticated) with the items of
\* its request; it can run while another request is between two awaits.
McplServersUpdate(u, items) ==
    /\ mcpl_req.updates < MaxUpdates
    /\ LET mcpl_servers ==
               [i \in 1..Len(items) |->
                   MCPLServer(u, normalize_address(items[i].address), items[i].is_active)]
       IN  mcpl_req' = [mcpl_req EXCEPT
                           !.table = update_user_servers(@, u, mcpl_servers),
                           !.updates = @ + 1]
    /\ UNCHANGED <<authVars, chatVars, fanVars, pipeVars>>

\* A request of user u arrives (GET /v1/tools: "caps"; POST
\* /v1/chat/completions: "chat"), is authenticated, and get_active_servers
\* is awaited.
McplGetActiveServers(kind, u, conv) ==
    /\ mcpl_req.pc = "idle"
    /\ kind = "caps" => conv = <<>>
    /\ mcpl_req' = [mcpl_req EXCEPT
                       !.pc = "servers", !.kind = kind, !.user_id = u,
                       !.post_messages = conv, !.messages = conv,
                       !.servers = get_active_servers(mcpl_req.table, mcpl_req.defaults, u),
                       !.op = "", !.payload = None, !.todo = <<>>, !.sent = <<>>,
                       !.tool_res_messages = <<>>]
    /\ UNCHANGED <<authVars, chatVars, fanVars, pipeVars>>

\* router_caps.py line 84: get_mcpl_tools creates its tasks
McplListTools ==
    /\ mcpl_req.pc = "servers" /\ mcpl_req.kind = "caps"
    /\ mcpl_req' = [mcpl_req EXCEPT !.pc = "gather", !.op = "tools",
                                    !.todo = mcpl_req.servers]
    /\ UNCHANGED <<authVars, chatVars, fanVars, pipeVars>>

\* lines 119-123: the composition is skipped, or get_mcpl_tool_props creates
\* its tasks
McplCompose ==
    /\ mcpl_req.pc = "servers" /\ mcpl_req.kind = "chat"
    /\ IF mcpl_req.messages # <<>> /\ mcpl_req.messages[1].role \notin {"system", "developer"}
       THEN mcpl_req' = [mcpl_req EXCEPT !.pc = "gather", !.op = "tools-props",
                                         !.todo = mcpl_req.servers]
       ELSE mcpl_req' = [mcpl_req EXCEPT !.pc = "composed"]
    /\ UNCHANGED <<authVars, chatVars, fanVars, pipeVars>>

\* The next task of the gather runs to its await: its request is sent.
McplSend ==
    /\ mcpl_req.pc = "gather" /\ mcpl_req.todo # <<>>
    /\ mcpl_req' = [mcpl_req EXCEPT
                       !.todo = Tail(@),
                       !.sent = Append(@, HttpRequest(mcpl_req.op, Head(mcpl_req.todo),
                                                      mcpl_req.payload))]
    /\ UNCHANGED <<authVars, chatVars, fanVars, pipeVars>>

\* get_mcpl_tools returned: the caps answer is built.
McplToolsReturn ==
    /\ mcpl_req.pc = "gather" /\ mcpl_req.op = "tools" /\ mcpl_req.todo = <<>>
    /\ mcpl_req' = [mcpl_req EXCEPT !.pc = "done"]
    /\ UNCHANGED <<authVars, chatVars, fanVars, pipeVars>>

\* get_mcpl_tool_props returned; line 123: messages = [system_message, *messages]
McplPropsReturn ==
    /\ mcpl_req.pc = "gather" /\ mcpl_req.op = "tools-props" /\ mcpl_req.todo = <<>>
    /\ mcpl_req' = [mcpl_req EXCEPT
                       !.pc = "composed",
                       !.messages = <<compose_system_message(SystemPromptLen)>> \o @]
    /\ UNCHANGED <<authVars, chatVars, fanVars, pipeVars>>

\* lines 125-129: execute_tools_if_needed returns the local results and
\* mcpl_tools_execute creates its tasks
McplExecuteTools(local) ==
    /\ mcpl_req.pc = "composed"
    /\ mcpl_req' = [mcpl_req EXCEPT
                       !.pc = "gather", !.op = "tools-execute",
                       !.tool_res_messages = local,
                       !.payload = Some(execute_payload(mcpl_req.user_id, mcpl_req.messages,
                                                        local)),
                       !.todo = mcpl_req.servers]
    /\ UNCHANGED <<authVars, chatVars, fanVars, pipeVars>>

\* mcpl_tools_execute returned; lines 131-138: the results are joined and
\* appended to the conversation
McplExecuteReturn(remote) ==
    /\ mcpl_req.pc = "gather" /\ mcpl_req.op = "tools-execute" /\ mcpl_req.todo = <<>>
    /\ remote # <<>> => mcpl_req.servers # <<>>
    /\ mcpl_req' = [mcpl_req EXCEPT
                       !.pc = "done",
                       !.tool_res_messages = @ \o remote,
                       !.messages = @ \o mcpl_req.tool_res_messages \o remote]
    /\ UNCHANGED <<authVars, chatVars, fanVars, pipeVars>>

\* The request is answered; the next one can arrive.
McplAnswer ==
    /\ mcpl_req.pc = "done"
    /\ mcpl_req' = [table |-> mcpl_req.table, defaults |-> mcpl_req.defaults,
                    updates |-> mcpl_req.updates] @@ NoRequest
    /\ UNCHANGED <<authVars, chatVars, fanVars, pipeVars>>

NextMcpl ==
    \/ \E u \in UserIds, items \in UpdateRequests : McplServersUpdate(u, items)
    \/ \E kind \in {"caps", "chat"}, u \in UserIds, conv \in McplConversations :
          McplGetActiveServers(kind, u, conv)
    \/ McplListTools
    \/ McplCompose
    \/ McplSend
    \/ McplToolsReturn
    \/ McplPropsReturn
    \/ \E local \in LocalResults : McplExecuteTools(local)
    \/ \E remote \in McplResults : McplExecuteReturn(remote)
    \/ McplAnswer

SpecMcpl == InitMcpl /\ [][NextMcpl]_vars

\* ---- vocabulary of the claims on the active servers

ActiveOnly(list) == SelectSeq(list, LAMBDA s : s.is_active)
PersistedFor(u) == SelectSeq(mcpl_req.table, LAMBDA s : s.user_id = u)
DefaultEntries ==
    [i \in 1..Len(mcpl_req.defaults) |-> MCPLServer(-1, mcpl_req.defaults[i], TRUE)]
SentOf(op) == SelectSeq(mcpl_req.sent, LAMBDA r : r.op = op)
Contacted == {mcpl_req.sent[i].server : i \in 1..Len(mcpl_req.sent)}
ListComputed == mcpl_req.pc = "idle" /\ mcpl_req'.pc = "servers"

\* C31: the active-server list computed for a user is that user's persisted
\* servers that are active, followed by the default servers; and every
\* server a tools, tools-props or tools-execute request of the user's
\* request is sent to is active and is a row of that user or a default,
\* never a row of another user.
C31_ActiveServersOfUser ==
    /\ [](\A s \in Contacted :
            /\ s.is_active
            /\ s.user_id \in {mcpl_req.user_id, -1}
            /\ \E i \in 1..Len(mcpl_req.servers) : mcpl_req.servers[i] = s)
    /\ [][ListComputed =>
            mcpl_req'.servers =
                ActiveOnly(PersistedFor(mcpl_req'.user_id)) \o DefaultEntries]_vars

\* C31 witness: the table holds an inactive row of user 1 and an active row
\* of user 2; user 1's chat request has sent its tools-props and
\* tools-execute requests to its own active server and to the default only.
C31_Witness ==
    /\ mcpl_req.pc = "done" /\ mcpl_req.kind = "chat" /\ mcpl_req.user_id = 1
    /\ \E i \in 1..Len(mcpl_req.table) :
          mcpl_req.table[i].user_id = 1 /\ ~mcpl_req.table[i].is_active
    /\ \E i \in 1..Len(mcpl_req.table) :
          mcpl_req.table[i].user_id = 2 /\ mcpl_req.table[i].is_active
    /\ Len(mcpl_req.servers) = 2
    /\ mcpl_req.servers[1].user_id = 1 /\ mcpl_req.servers[2].user_id = -1
    /\ Len(SentOf("tools-props")) = 2 /\ Len(SentOf("tools-execute")) = 2

ComposedConversation ==
    IF mcpl_req.post_messages # <<>>
          /\ mcpl_req.post_messages[1].role \notin {"system", "developer"}
    THEN <<compose_system_message(SystemPromptLen)>> \o mcpl_req.post_messages
    ELSE mcpl_req.post_messages
ExecuteFanoutOver ==
    \/ mcpl_req.pc = "gather" /\ mcpl_req.op = "tools-execute" /\ mcpl_req.todo = <<>>
    \/ mcpl_req.pc = "done" /\ mcpl_req.kind = "chat"

\* C34: in one chat-completion request the tools-execute fan-out sends one
\* request to each entry of the active-server list, in list order, and never
\* more; each carries the authenticated user's id and the same message list,
\* the conversation after the composition of the system prompt, to which the
\* tool results of this request are appended only afterwards.
C34_OneExecutePerServer ==
    /\ Len(SentOf("tools-execute")) <= Len(mcpl_req.servers)
    /\ \A i \in 1..Len(SentOf("tools-execute")) :
          LET r == SentOf("tools-execute")[i]
          IN  /\ r.server = mcpl_req.servers[i]
              /\ IsSome(r.payload)
              /\ Get(r.payload).user_id = mcpl_req.user_id
              /\ Get(r.payload).messages = ComposedConversation
    /\ ExecuteFanoutOver => Len(SentOf("tools-execute")) = Len(mcpl_req.servers)
    /\ (mcpl_req.pc = "done" /\ mcpl_req.kind = "chat") =>
          mcpl_req.messages = ComposedConversation \o mcpl_req.tool_res_messages

\* C34 witness: user 2's request had a system prompt composed and a local
\* and a remote tool result; both of its servers got one tools-execute
\* request with the composed conversation, without the results.
C34_Witness ==
    /\ mcpl_req.pc = "done" /\ mcpl_req.kind = "chat" /\ mcpl_req.user_id = 2
    /\ Len(mcpl_req.servers) = 2
    /\ mcpl_req.servers[1].address # mcpl_req.servers[2].address
    /\ Len(SentOf("tools-execute")) = 2
    /\ Len(mcpl_req.tool_res_messages) = 2
    /\ Len(Get(SentOf("tools-execute")[2].payload).messages) = 2
    /\ Len(mcpl_req.messages) = 4

\* C39: within one fan-out operation each capability-server address is
\* contacted at most once, also when a row of the user has the address of a
\* default server; so no server gets the tools-execute request of one
\* chat-completion request twice.
C39_AddressContactedOnce ==
    \A op \in FanOps :
        \A i, j \in 1..Len(SentOf(op)) :
            i # j => SentOf(op)[i].server.address # SentOf(op)[j].server.address

-----------------------------------------------------------------------------
(* The auth cache under overlapping requests (Spec) *)

\* The lookup of line 75 found no live entry
Missed(q) == q.pc # "new" /\ IsSome(q.api_key) /\ q.seen \in {"absent", "boundary", "expired"}
\* Both looked the cache up before either wrote it
Overlapped(q, o) == SameKey(q, o) /\ q.seen = "absent" /\ o.seen = "absent"
GotIdentity(q) == q.answer = "auth"
Fetches(r) == req[r].pc = "fetch_auth" /\ req'[r].pc # "fetch_auth"

\* The identities the service has returned for requests carrying token k
FetchedFor(k) ==
    {Get(req[r].auth) : r \in {x \in Reqs : GotIdentity(req[x]) /\ req[x].api_key = Some(k)
                                             /\ IsSome(req[x].auth)}}

\* C32 as stated: two resolve(T) calls that both found no live entry for T
\* each made their own identity-service call, and once both have completed
\* each has written the cache and received an AuthItem, and the entry for T
\* is the one written last.
C32_BothWriteAndReceive ==
    \A r, o \in Reqs :
        (r # o /\ SameKey(req[r], req[o]) /\ Missed(req[r]) /\ Missed(req[o]))
            => /\ req[r].id_calls = 1 /\ req[o].id_calls = 1
               /\ (Resolved(req[r]) /\ Resolved(req[o])) =>
                     /\ IsSome(req[r].auth) /\ IsSome(req[o].auth)
                     /\ Get(req[r].api_key) \in DOMAIN cache
                     /\ cache[Get(req[r].api_key)].item \in {Get(req[r].auth), Get(req[o].auth)}

\* C32 as amended: two resolve(T) calls that both found no live entry for T
\* each make their own identity-service call; each of them that is answered
\* with an identity receives that AuthItem and writes the entry for T with
\* it and the time of the write, over whatever entry is there; no other step
\* changes the entry.  So once both have completed with an identity, the
\* cache holds one entry for T, that of the last write made for T.
C32_LastWriteWins ==
    /\ [](\A r, o \in Reqs :
            (r # o /\ SameKey(req[r], req[o]) /\ Missed(req[r]) /\ Missed(req[o]))
                => /\ req[r].id_calls = 1 /\ req[o].id_calls = 1
                   /\ (Resolved(req[r]) /\ Resolved(req[o])
                         /\ GotIdentity(req[r]) /\ GotIdentity(req[o])) =>
                         /\ IsSome(req[r].auth) /\ IsSome(req[o].auth)
                         /\ Get(req[r].api_key) \in DOMAIN cache
                         /\ cache[Get(req[r].api_key)].item
                               \in FetchedFor(Get(req[r].api_key)))
    /\ [][\A r \in Reqs :
            (Fetches(r) /\ GotIdentity(req'[r])) =>
                /\ IsSome(req'[r].auth)
                /\ Get(req[r].api_key) \in DOMAIN cache'
                /\ cache'[Get(req[r].api_key)] = CacheAuthItem(Get(req'[r].auth), now)]_vars
    /\ [][\A k \in DOMAIN cache' :
            (k \notin DOMAIN cache \/ cache'[k] # cache[k]) =>
                \E r \in Reqs : Fetches(r) /\ GotIdentity(req'[r]) /\ req[r].api_key = Some(k)]_vars

\* C32 witness: two requests with the same token both found the cache empty;
\* the identity service answered the first with user 1 and, 359 seconds
\* later, the second with user 2; the entry is the second's.
C32_Witness ==
    \E r, o \in Reqs :
        /\ r # o /\ Overlapped(req[r], req[o])
        /\ Resolved(req[r]) /\ Resolved(req[o])
        /\ GotIdentity(req[r]) /\ GotIdentity(req[o])
        /\ Get(req[r].auth).user_id = 1 /\ Get(req[o].auth).user_id = 2
        /\ cache[Get(req[r].api_key)] =
              CacheAuthItem(Get(req[o].auth), CACHE_ITEM_EXPIRATION_TIME - 1)

\* C35: under any interleaving of the requests, the AuthItem _check_auth
\* returns for token T, from the cache or freshly fetched, is one the
\* identity service returned for a request carrying T; the entry cached
\* under T is such an item; and an entry for T appears only in the step in
\* which a request carrying T gets an identity answer.
C35_IdentityOfOwnToken ==
    /\ [](/\ \A r \in Reqs :
                IsSome(req[r].auth) => Get(req[r].auth) \in FetchedFor(Get(req[r].api_key))
          /\ \A k \in DOMAIN cache : cache[k].item \in FetchedFor(k))
    /\ [][\A k \in DOMAIN cache' :
            k \notin DOMAIN cache =>
                \E r \in Reqs : /\ Fetches(r) /\ req'[r].answer = "auth"
                                /\ req[r].api_key = Some(k)
                                /\ cache'[k].item = Get(req'[r].auth)]_vars

\* C35 witness: a request with token a got the identity of user 2 from the
\* identity service; a later request carrying the same token in a header
\* with two spaces was served that identity from the cache.
C35_Witness ==
    \E r, o \in Reqs :
        /\ r # o
        /\ req[r].api_key = Some(<<"a">>) /\ GotIdentity(req[r])
        /\ Get(req[r].auth).user_id = 2
        /\ req[o].authorization = Some(<<"Bearer", "sp", "sp", "a">>)
        /\ req[o].seen = "live" /\ req[o].id_calls = 0
        /\ req[o].auth = req[r].auth
        /\ cache[<<"a">>].item = Get(req[o].auth)

-----------------------------------------------------------------------------
(* core/chat.py, further properties (SpecChat) *)

MsgsOf(msgs) == {msgs[i] : i \in 1..Len(msgs)}

\* C33: the estimated cost of a message is a nonnegative integer c that is 0
\* when str(content) has fewer than 4 characters (the empty content
\* included) and otherwise the floor of len / 4: 4c <= len < 4c + 4.
C33_CostIsFloorOfQuarter ==
    \A m \in MsgsOf(post_messages) \cup MsgsOf(messages) :
        LET c == count_tokens(m)
        IN  /\ c \in Nat
            /\ m.clen < 4 => c = 0
            /\ m.clen >= 4 => (4 * c <= m.clen /\ m.clen < 4 * c + 4)

\* C33 witness: limit_messages has costed a conversation with contents of 3,
\* 4 and 9 characters as 0, 1 and 2 and kept them within the budget 3.
C33_Witness ==
    /\ Windowed /\ tok_limit = 3
    /\ post_messages = <<ChatMessageSystem("system", 4), ChatMessageUser(3),
                         ChatMessageAssistant(9, None)>>
    /\ messages = post_messages
    /\ Cost(messages) = 3 /\ count_tokens(messages[2]) = 0

WindowedTwice == chat_calls = <<"limit_messages", "limit_messages">>
LastIsWindowing ==
    Len(chat_calls) > 0 /\ chat_calls[Len(chat_calls)] = "limit_messages"

\* C37: windowing is idempotent: for every conversation and budget,
\* limit_messages applied to the list limit_messages returned gives that
\* list again.
C37_WindowingIdempotent == WindowedTwice => messages = prev_messages

\* C37 witness: the first call dropped messages of a four-message
\* conversation; the second call, on the two messages it had returned,
\* returned them again.
C37_Witness ==
    /\ WindowedTwice
    /\ Len(post_messages) = 4 /\ Len(prev_messages) = 2
    /\ IsSystem(prev_messages[1]) /\ ~IsSystem(prev_messages[2])
    /\ count_tokens(prev_messages[2]) > 0
    /\ messages = prev_messages

\* C38: limit_messages does not modify its argument: after the call the
\* list the caller passed holds the same messages in the same order as
\* before the call.
C38_ArgumentUnchanged == LastIsWindowing => arg_after = Some(prev_messages)

-----------------------------------------------------------------------------
(* The list forwarded upstream (SpecPipe) *)

\* Every Tool message of the list has the id of a call of an Assistant
\* message located earlier in the list
ResultsFollowCalls(msgs) ==
    \A i \in 1..Len(msgs) :
        IsTool(msgs[i]) =>
            \E j \in 1..(i - 1) :
                \E k \in 1..Len(CallsOf(msgs[j])) : CallsOf(msgs[j])[k].id = msgs[i].tool_call_id

\* C36: in the message list forwarded upstream, after windowing and pruning,
\* every Tool message's tool_call_id is the id of a tool call carried by an
\* Assistant message located earlier in that list, whenever that was so in
\* the conversation with the tool results of the request: windowing keeps no
\* tool result whose Assistant message it dropped, and pruning removes no
\* call whose result is kept.
C36_ResultsFollowCalls ==
    (IsSome(pipe.sent) /\ ResultsFollowCalls(Injected)) => ResultsFollowCalls(Get(pipe.sent))

====
